---- MODULE Spec2Model ----
(***************************************************************************)
(* Model of src/src/statement.py (class Statement) with the record model  *)
(* of src/src/holdings.py, income.py, activity.py and summary.py.          *)
(*                                                                         *)
(* Money.  Every amount in the program is a Python float (IEEE-754         *)
(* binary64) parsed from a decimal string.  The model keeps the amounts    *)
(* of whole cents and represents the double v by the record                *)
(*     [c |-> cents, e |-> err]   with   100 * v = c + e * 2^-57,           *)
(* c the nearest whole number of cents and e the (tiny) distance of the     *)
(* double from it, in units of 2^-57 cent.  With M = v * 2^59 (an integer   *)
(* for every double of the range) this is e = 25 * M - c * 2^57, so that    *)
(* M = 41 * e modulo 2^10 (41 is the inverse of 25 modulo 1024) and the     *)
(* round-to-nearest-even of every sum and difference is computed exactly   *)
(* with small integers.  The representation is exact for |v| < 8 dollars.  *)
(***************************************************************************)
EXTENDS Integers, Sequences, FiniteSets, TLC

\* ------------------------------------------------------------------ floats

RECURSIVE Pow2(_)
Pow2(n) == IF n = 0 THEN 1 ELSE 2 * Pow2(n - 1)

\* 2^n modulo 25
RECURSIVE PowMod25(_)
PowMod25(n) == IF n = 0 THEN 1 ELSE (2 * PowMod25(n - 1)) % 25

Abs(n) == IF n < 0 THEN -n ELSE n

\* The double [c, e] with c, e of a non-negative value lies in the binade
\* [2^(k-7), 2^(k-6)) dollars, whose doubles are the multiples of 2^(k-59):
\* k is the least k with 100 * v < 100 * 2^(k-6), i.e. 32 * c < 25 * 2^(k+1).
RECURSIVE BinadeFrom(_, _, _)
BinadeFrom(k, c, e) ==
    IF k >= 9 \/ 32 * c < 25 * Pow2(k + 1) \/ (32 * c = 25 * Pow2(k + 1) /\ e < 0)
    THEN k
    ELSE BinadeFrom(k + 1, c, e)

Binade(c, e) == BinadeFrom(0, c, e)

FZero == [c |-> 0, e |-> 0]

FNeg(x) == [c |-> -x.c, e |-> -x.e]

IsNegative(x) == x.c < 0 \/ (x.c = 0 /\ x.e < 0)

IsPositive(x) == x.c > 0 \/ (x.c = 0 /\ x.e > 0)

IsZero(x) == x.c = 0 /\ x.e = 0

FAbs(x) == IF IsNegative(x) THEN FNeg(x) ELSE x

\* x < y on doubles
FLess(x, y) == x.c < y.c \/ (x.c = y.c /\ x.e < y.e)

\* Round the exact value [c, e] >= 0 to the nearest double, ties to even.
\* Values below one cent are differences of doubles and are exact.
RoundPos(c, e) ==
    IF c = 0 THEN [c |-> c, e |-> e]
    ELSE LET k    == Binade(c, e)
             m    == Pow2(k)
             r    == (41 * e) % m
             down == [c |-> c, e |-> e - 25 * r]
             up   == [c |-> c, e |-> e + 25 * (m - r)]
             q    == (((41 * e) % (2 * m)) - r) \div m
         IN  IF r = 0 THEN [c |-> c, e |-> e]
             ELSE IF 2 * r < m THEN down
             ELSE IF 2 * r > m THEN up
             ELSE IF q = 0 THEN down ELSE up

\* The double nearest to the exact value [c, e]
RoundNearest(x) == IF IsNegative(x) THEN FNeg(RoundPos(-x.c, -x.e)) ELSE RoundPos(x.c, x.e)

\* float("d.cc") for a string of whole cents: the double nearest to c / 100
FloatOfPos(c) ==
    IF c = 0 THEN FZero
    ELSE LET k == Binade(c, 0)
             r == (c * PowMod25(57 - k)) % 25
         IN  [c |-> c, e |-> IF r <= 12 THEN -(r * Pow2(k)) ELSE (25 - r) * Pow2(k)]

FloatOf(c) == IF c < 0 THEN FNeg(FloatOfPos(-c)) ELSE FloatOfPos(c)

\* x + y and x - y on doubles
FAdd(x, y) == RoundNearest([c |-> x.c + y.c, e |-> x.e + y.e])

FSub(x, y) == RoundNearest([c |-> x.c - y.c, e |-> x.e - y.e])

\* round(x, 2): the double nearest to x rounded to two decimals
Round2(x) == FloatOf(x.c)

\* f"{x:.2f}": the text of x with two decimals, kept as a number of cents
Fmt2(x) == x.c

\* the literal 0.01
Cent == FloatOf(1)


\* ------------------------------------------------------------ optional values

\* Python None, and a present value
None == <<>>

Some(x) == <<x>>

IsNone(o) == Len(o) = 0

Get(o) == o[1]

\* "if x" on an Optional[float]: None and 0.0 are falsy
Truthy(o) == ~IsNone(o) /\ ~IsZero(Get(o))

\* --------------------------------------------------------------- static data

\* sample of basket_config: symbol -> (basket id, FMV account, unrealized account)
basket_config ==
    [s \in {"ALCO", "CWCO", "JEPI"} |->
        IF s = "JEPI"
        THEN [id  |-> "10003",
              fmv |-> <<"Trading Securities - Buy-Write ETFs - FMV Adjustment">>,
              unr |-> <<"Unrealized Gain - Equity Baskets - Buy Write ETFs">>]
        ELSE [id  |-> "10001",
              fmv |-> <<"Trading Securities - Water Basket - FMV Adjustment">>,
              unr |-> <<"Unrealized Gain - Equity Baskets - Water Investments">>]]

BasketIds == {basket_config[s].id : s \in DOMAIN basket_config}

money_market_symbols == {"FDRXX", "SPAXX", "FCASH"}

\* realized gain/loss income account of a basket tag
basket_income_accounts(tag) ==
    IF tag = "10001" THEN <<"Income - Equity Securities Baskets - Water Investments">>
    ELSE IF tag = "10003" THEN <<"Income - Equity Securities Baskets - Buy Write ETFs">>
    ELSE IF tag = "10005" THEN <<"Income - Equity Securities Baskets - Holding Companies">>
    ELSE IF tag = "10007" THEN <<"Income - Equity Securities Baskets - Balanced ETFs">>
    ELSE <<"Income - Equity Securities">>

CashAccount == <<"Cash - Fidelity Cash Management Account">>

DividendIncomeAccount == <<"Income - Ordinary Dividends">>

\* first journal suffix of each block
DivBase == 10001

PurBase == 20001

SalBase == 30001

UnrBase == 40001

\* Python's str ordering on the strings of the model
StrOrder == <<"", "10001", "10003", "ALCO", "CWCO", "FDRXX", "JEPI", "XYZ">>

StrRank(s) == CHOOSE i \in DOMAIN StrOrder : StrOrder[i] = s

\* sorted(S) for a set of integers
RECURSIVE SortedInts(_)
SortedInts(S) ==
    IF S = {} THEN <<>>
    ELSE LET m == CHOOSE x \in S : \A y \in S : x <= y
         IN  <<m>> \o SortedInts(S \ {m})

\* sorted(S) for a set of strings
SortedStrs(S) ==
    LET r == SortedInts({StrRank(s) : s \in S})
    IN  [i \in DOMAIN r |-> StrOrder[r[i]]]

\* the distinct elements of a sequence in order of first occurrence (dict keys)
RECURSIVE FirstOccurrences(_)
FirstOccurrences(q) ==
    IF q = <<>> THEN <<>>
    ELSE LET init == FirstOccurrences(SubSeq(q, 1, Len(q) - 1))
             x    == q[Len(q)]
         IN  IF \E i \in DOMAIN init : init[i] = x THEN init ELSE Append(init, x)

\* sum(...) of a sequence of floats, left to right from 0
RECURSIVE FSum(_)
FSum(q) == IF q = <<>> THEN FZero ELSE FAdd(FSum(SubSeq(q, 1, Len(q) - 1)), q[Len(q)])

RECURSIVE Concat(_)
Concat(qs) == IF qs = <<>> THEN <<>> ELSE qs[1] \o Concat(Tail(qs))

\* ------------------------------------------------------------- record model

\* Holding.is_money_market
is_money_market(h) == IsNone(h.cost_basis) \/ IsZero(Get(h.cost_basis))

\* a variant that takes a beginning_value of zero as unavailable (change 0)
ChangeZeroUnavailable(h) ==
    IF is_money_market(h) THEN FZero
    ELSE IF IsNone(h.beginning_value)
    THEN FSub(h.ending_value, IF Truthy(h.cost_basis) THEN Get(h.cost_basis) ELSE FZero)
    ELSE IF IsPositive(Get(h.beginning_value))
    THEN FSub(h.ending_value, Get(h.beginning_value))
    ELSE FZero

\* Holding.change_in_value
Holding_change_in_value(h) ==
    IF is_money_market(h) THEN FZero
    ELSE IF IsNone(h.beginning_value) \/ IsZero(Get(h.beginning_value))
    THEN FSub(h.ending_value, IF Truthy(h.cost_basis) THEN Get(h.cost_basis) ELSE FZero)
    ELSE IF IsPositive(Get(h.beginning_value))
    THEN FSub(h.ending_value, Get(h.beginning_value))
    ELSE FZero

\* a variant that counts a money-market position at its ending value
Holdings_change_in_value_gross(hs) ==
    FSum([i \in DOMAIN hs |->
             IF is_money_market(hs[i]) THEN hs[i].ending_value
             ELSE Holding_change_in_value(hs[i])])

\* Holdings.change_in_value
Holdings_change_in_value(hs) == FSum([i \in DOMAIN hs |-> Holding_change_in_value(hs[i])])

\* IncomeTransaction.is_reinvestment: 'Reinvestment' in description
is_reinvestment(t) == t.description \in {"Reinvestment", "Dividend Reinvestment"}

\* a variant that totals the reinvestments too
Income_amount_all(inc) == FSum([i \in DOMAIN inc |-> inc[i].amount])

\* Income.amount
Income_amount(inc) ==
    LET q == SelectSeq(inc, LAMBDA t : ~is_reinvestment(t))
    IN  FSum([i \in DOMAIN q |-> q[i].amount])

\* 'Bought' in txn.action, 'Sold' in txn.action
IsBought(t) == t.action \in {"You Bought", "Bought"}

IsSold(t) == t.action \in {"You Sold", "Sold"}


\* ------------------------------------------------------------ journal lines

\* One row of an entry file: the columns that vary.  debit and credit are the
\* texts of the Debit and Credit columns: None for '' and Some(cents) for "d.cc".
\* (Journal Number Prefix 'MMW-', Journal Type 'both', Currency 'USD' and
\* Status 'published' are the same on every row.)
Row(date, ref, suffix, account, debit, credit) ==
    [date |-> date, ref |-> ref, suffix |-> suffix, account |-> account,
     debit |-> debit, credit |-> credit]

DebitRow(date, ref, suffix, account, x) == Row(date, ref, suffix, account, Some(Fmt2(x)), None)

CreditRow(date, ref, suffix, account, x) == Row(date, ref, suffix, account, None, Some(Fmt2(x)))

\* Statement._load_chart_of_accounts: symbol -> account name, from the rows of
\* books/chart_of_accounts.csv.  An account name is the sequence of its pieces,
\* e.g. <<"Consolidated Water ", "(", "CWCO", ")">>; the symbol is the piece
\* between the last "(" and the last ")".
RFind(name, piece) ==
    LET at == {i \in DOMAIN name : name[i] = piece}
    IN  CHOOSE i \in at : \A j \in at : j <= i

HasSymbol(name) ==
    /\ \E i \in DOMAIN name : name[i] = "("
    /\ \E i \in DOMAIN name : name[i] = ")"
    /\ RFind(name, ")") = RFind(name, "(") + 2

SymbolOf(name) == name[RFind(name, "(") + 1]

\* a variant that never finds the symbol in the chart
AccountNameRaw(chart, symbol) == <<symbol>>

\* symbol_map.get(symbol, symbol): the last matching row wins
AccountName(chart, symbol) ==
    LET at == IF IsNone(chart) THEN {}
              ELSE {i \in DOMAIN Get(chart) :
                        HasSymbol(Get(chart)[i]) /\ SymbolOf(Get(chart)[i]) = symbol}
    IN  IF at = {} THEN <<symbol>>
        ELSE Get(chart)[CHOOSE i \in at : \A j \in at : j <= i]

\* a (settlement_date, basket tag) key as one integer, ordered as the tuples are
KeyOf(t) == t.settlement_date * (Len(StrOrder) + 1) + StrRank(t.basket)

Amounts(txns) == [i \in DOMAIN txns |-> txns[i].amount]

\* ---- write_dividend_entries

\* a variant that takes the reinvestments as cash dividends
IncomeTxnsAll(inc) == inc

\* income_by_date: the non-reinvestment transactions, and their dates
DividendTxns(inc) == SelectSeq(inc, LAMBDA t : ~is_reinvestment(t))

DividendGroup(inc, d, suffix) ==
    LET txns == SelectSeq(DividendTxns(inc), LAMBDA t : t.settlement_date = d)
        ref  == <<"DIV", d, "">>
    IN  [i \in DOMAIN txns |-> DebitRow(d, ref, suffix, CashAccount, txns[i].amount)]
        \o <<CreditRow(d, ref, suffix, DividendIncomeAccount, FSum(Amounts(txns)))>>

DividendRows(inc) ==
    LET q    == DividendTxns(inc)
        keys == SortedInts({q[i].settlement_date : i \in DOMAIN q})
    IN  Concat([k \in DOMAIN keys |-> DividendGroup(inc, keys[k], DivBase + k - 1)])

\* the result of a block writer: whether the file was (re)written, its rows
\* after the header, and the value returned
NoFile == [written |-> FALSE, rows |-> <<>>, ret |-> "None", raised |-> FALSE]

Written(rows, path) == [written |-> TRUE, rows |-> rows, ret |-> path, raised |-> FALSE]

write_dividend_entries(inc) ==
    IF IsNone(inc) THEN NoFile
    ELSE IF DividendTxns(Get(inc)) = <<>> THEN NoFile
    ELSE Written(DividendRows(Get(inc)), "DIV")

\* ---- write_purchase_entries

PurchaseTxns(act) ==
    SelectSeq(act, LAMBDA t : IsBought(t) /\ t.symbol \notin money_market_symbols)

PurchaseGroup(act, chart, key, suffix) ==
    LET txns == SelectSeq(PurchaseTxns(act), LAMBDA t : KeyOf(t) = key)
        d    == txns[1].settlement_date
        ref  == <<"PUR", d, txns[1].basket>>
    IN  [i \in DOMAIN txns |->
            DebitRow(d, ref, suffix, AccountName(chart, txns[i].symbol), txns[i].amount)]
        \o <<CreditRow(d, ref, suffix, CashAccount, FSum(Amounts(txns)))>>

PurchaseRows(act, chart) ==
    LET q    == PurchaseTxns(act)
        keys == SortedInts({KeyOf(q[i]) : i \in DOMAIN q})
    IN  Concat([k \in DOMAIN keys |-> PurchaseGroup(act, chart, keys[k], PurBase + k - 1)])

write_purchase_entries(act, chart) ==
    IF IsNone(act) THEN NoFile
    ELSE IF PurchaseTxns(Get(act)) = <<>> THEN NoFile
    ELSE Written(PurchaseRows(Get(act), chart), "PUR")

\* ---- write_sale_entries

SaleTxns(act) ==
    SelectSeq(act, LAMBDA t : IsSold(t) /\ t.symbol \notin money_market_symbols)

\* symbol_totals[symbol] of one group
SymbolProceeds(txns, symbol) ==
    FSum(Amounts(SelectSeq(txns, LAMBDA t : t.symbol = symbol)))

\* a variant that books a sale without cost basis at a cost of zero
SymbolCostBasisOwnOnly(txns, symbol) ==
    LET q == SelectSeq(txns, LAMBDA t : t.symbol = symbol)
    IN  FSum([i \in DOMAIN q |->
                 IF Truthy(q[i].cost_basis) THEN Get(q[i].cost_basis) ELSE FZero])

SymbolCostBasis(txns, symbol) ==
    LET q == SelectSeq(txns, LAMBDA t : t.symbol = symbol)
    IN  FSum([i \in DOMAIN q |->
                 IF Truthy(q[i].cost_basis) THEN Get(q[i].cost_basis) ELSE q[i].amount])

\* abs(gain_loss) >= 0.01
IsMaterial(x) == ~FLess(FAbs(x), Cent)

\* a variant that debits a gain and credits a loss
RealizedRowsReversed(d, ref, suffix, account, gain_loss) ==
    IF ~IsMaterial(gain_loss) THEN <<>>
    ELSE IF IsNegative(gain_loss)
    THEN <<CreditRow(d, ref, suffix, account, FAbs(gain_loss))>>
    ELSE <<DebitRow(d, ref, suffix, account, gain_loss)>>

\* the realized gain/loss row of a symbol, if any
RealizedRows(d, ref, suffix, account, gain_loss) ==
    IF ~IsMaterial(gain_loss) THEN <<>>
    ELSE IF IsNegative(gain_loss)
    THEN <<DebitRow(d, ref, suffix, account, FAbs(gain_loss))>>
    ELSE <<CreditRow(d, ref, suffix, account, gain_loss)>>

SaleGroup(act, chart, key, suffix) ==
    LET txns    == SelectSeq(SaleTxns(act), LAMBDA t : KeyOf(t) = key)
        d       == txns[1].settlement_date
        basket  == txns[1].basket
        ref     == <<"SAL", d, basket>>
        symbols == SortedStrs({txns[i].symbol : i \in DOMAIN txns})
    IN  <<DebitRow(d, ref, suffix, CashAccount, FSum(Amounts(txns)))>>
        \o Concat([k \in DOMAIN symbols |->
               RealizedRows(d, ref, suffix, basket_income_accounts(basket),
                            FSub(SymbolProceeds(txns, symbols[k]),
                                 SymbolCostBasis(txns, symbols[k])))])
        \o [k \in DOMAIN symbols |->
               CreditRow(d, ref, suffix, AccountName(chart, symbols[k]),
                         SymbolCostBasis(txns, symbols[k]))]

SaleRows(act, chart) ==
    LET q    == SaleTxns(act)
        keys == SortedInts({KeyOf(q[i]) : i \in DOMAIN q})
    IN  Concat([k \in DOMAIN keys |-> SaleGroup(act, chart, keys[k], SalBase + k - 1)])

write_sale_entries(act, chart) ==
    IF IsNone(act) THEN NoFile
    ELSE IF SaleTxns(Get(act)) = <<>> THEN NoFile
    ELSE Written(SaleRows(Get(act), chart), "SAL")


\* ---- write_unrealized_entries

\* a defaultdict(float) over basket ids: its keys and its values
EmptyTotals == [keys |-> {}, val |-> [b \in BasketIds |-> FZero]]

\* basket_totals[b] += x
TotalsAdd(d, b, x) == [keys |-> d.keys \cup {b}, val |-> [d.val EXCEPT ![b] = FAdd(@, x)]]

\* basket_totals[b] -= x
TotalsSub(d, b, x) == [keys |-> d.keys \cup {b}, val |-> [d.val EXCEPT ![b] = FSub(@, x)]]

InBasketConfig(symbol) == symbol \in DOMAIN basket_config

\* a variant that counts a symbol without basket in the first basket
RECURSIVE HoldingTotalsDefaultBasket(_)
HoldingTotalsDefaultBasket(hs) ==
    IF hs = <<>> THEN [totals |-> EmptyTotals, info |-> {}]
    ELSE LET acc == HoldingTotalsDefaultBasket(SubSeq(hs, 1, Len(hs) - 1))
             h   == hs[Len(hs)]
             b   == IF InBasketConfig(h.symbol) THEN basket_config[h.symbol].id ELSE "10001"
         IN  IF is_money_market(h) THEN acc
             ELSE [totals |-> TotalsAdd(acc.totals, b, Holding_change_in_value(h)),
                   info   |-> acc.info \cup {b}]

\* the loop over self.holdings: basket_totals and the keys of basket_info
RECURSIVE HoldingTotals(_)
HoldingTotals(hs) ==
    IF hs = <<>> THEN [totals |-> EmptyTotals, info |-> {}]
    ELSE LET acc == HoldingTotals(SubSeq(hs, 1, Len(hs) - 1))
             h   == hs[Len(hs)]
         IN  IF is_money_market(h) \/ ~InBasketConfig(h.symbol) THEN acc
             ELSE [totals |-> TotalsAdd(acc.totals, basket_config[h.symbol].id,
                                        Holding_change_in_value(h)),
                   info   |-> acc.info \cup {basket_config[h.symbol].id}]

\* a variant that adjusts every held symbol, new positions included
holdings_all(hs) == {hs[i].symbol : i \in DOMAIN hs}

\* holdings_with_beginning
holdings_with_beginning(hs) ==
    {hs[i].symbol : i \in {j \in DOMAIN hs :
        ~IsNone(hs[j].beginning_value) /\ IsPositive(Get(hs[j].beginning_value))}}

\* a variant that subtracts the purchases and does not add the sales back
RECURSIVE ActivityAdjustedPurchasesOnly(_, _, _)
ActivityAdjustedPurchasesOnly(totals, act, hwb) ==
    IF act = <<>> THEN totals
    ELSE LET acc == ActivityAdjustedPurchasesOnly(totals, SubSeq(act, 1, Len(act) - 1), hwb)
             t   == act[Len(act)]
         IN  IF ~(InBasketConfig(t.symbol) /\ t.symbol \in hwb) THEN acc
             ELSE IF IsBought(t) THEN TotalsSub(acc, basket_config[t.symbol].id, t.amount)
             ELSE acc

\* the loop over self.activity that adjusts for purchases and sales
RECURSIVE ActivityAdjusted(_, _, _)
ActivityAdjusted(totals, act, hwb) ==
    IF act = <<>> THEN totals
    ELSE LET acc == ActivityAdjusted(totals, SubSeq(act, 1, Len(act) - 1), hwb)
             t   == act[Len(act)]
         IN  IF ~(InBasketConfig(t.symbol) /\ t.symbol \in hwb) THEN acc
             ELSE IF IsBought(t) THEN TotalsSub(acc, basket_config[t.symbol].id, t.amount)
             ELSE IF IsSold(t) THEN TotalsAdd(acc, basket_config[t.symbol].id, t.amount)
             ELSE acc

\* Statement._load_prior_holdings: symbol -> ending_value of the prior month's
\* holdings file ({} when there is no such file); the last row of a symbol wins
PriorSymbols(prior) ==
    IF IsNone(prior) THEN {} ELSE {Get(prior)[i].symbol : i \in DOMAIN Get(prior)}

PriorValue(prior, symbol) ==
    LET at == {i \in DOMAIN Get(prior) : Get(prior)[i].symbol = symbol}
    IN  Get(prior)[CHOOSE i \in at : \A j \in at : j <= i].ending_value

\* sold_proceeds: the symbols sold and no longer held, in order of first sale
SoldTxns(hs, act) ==
    SelectSeq(act, LAMBDA t : /\ IsSold(t)
                              /\ InBasketConfig(t.symbol)
                              /\ \A i \in DOMAIN hs : hs[i].symbol # t.symbol)

SoldSymbols(hs, act) ==
    LET q == SoldTxns(hs, act)
    IN  FirstOccurrences([i \in DOMAIN q |-> q[i].symbol])

SoldProceeds(hs, act, symbol) ==
    FSum(Amounts(SelectSeq(SoldTxns(hs, act), LAMBDA t : t.symbol = symbol)))

\* a variant that takes a prior value that is not available as zero
RECURSIVE LiquidationDefaultZero(_, _, _, _, _)
LiquidationDefaultZero(acc0, hs, act, prior, symbols) ==
    IF symbols = <<>> THEN acc0
    ELSE LET acc == LiquidationDefaultZero(acc0, hs, act, prior,
                                           SubSeq(symbols, 1, Len(symbols) - 1))
             s   == symbols[Len(symbols)]
             pv  == IF s \in PriorSymbols(prior) THEN PriorValue(prior, s) ELSE FZero
         IN  [totals |-> TotalsAdd(acc.totals, basket_config[s].id,
                                   FSub(SoldProceeds(hs, act, s), pv)),
              info   |-> acc.info \cup {basket_config[s].id}]

\* the loop over sold_proceeds.items()
RECURSIVE LiquidationAdded(_, _, _, _, _)
LiquidationAdded(acc0, hs, act, prior, symbols) ==
    IF symbols = <<>> THEN acc0
    ELSE LET acc == LiquidationAdded(acc0, hs, act, prior, SubSeq(symbols, 1, Len(symbols) - 1))
             s   == symbols[Len(symbols)]
         IN  IF s \notin PriorSymbols(prior) THEN acc
             ELSE [totals |-> TotalsAdd(acc.totals, basket_config[s].id,
                                        FSub(SoldProceeds(hs, act, s), PriorValue(prior, s))),
                   info   |-> acc.info \cup {basket_config[s].id}]

\* basket_totals and the keys of basket_info when the emission starts
BasketTotals(hs, act, prior) ==
    LET held     == HoldingTotals(hs)
        adjusted == IF IsNone(act) THEN held
                    ELSE [totals |-> ActivityAdjusted(held.totals, Get(act),
                                                      holdings_with_beginning(hs)),
                          info   |-> held.info]
    IN  IF IsNone(act) THEN adjusted
        ELSE LiquidationAdded(adjusted, hs, Get(act), prior, SoldSymbols(hs, Get(act)))

\* a variant that books a gain as a loss and a loss as a gain
UnrealizedPairReversed(b, change, period_end, suffix) ==
    LET ref    == <<"UNR", period_end, b>>
        cfg    == basket_config[CHOOSE s \in DOMAIN basket_config : basket_config[s].id = b]
        amount == FAbs(Round2(change))
    IN  IF IsPositive(change)
        THEN <<DebitRow(period_end, ref, suffix, cfg.unr, amount),
               CreditRow(period_end, ref, suffix, cfg.fmv, amount)>>
        ELSE <<DebitRow(period_end, ref, suffix, cfg.fmv, amount),
               CreditRow(period_end, ref, suffix, cfg.unr, amount)>>

\* the two rows of one basket
UnrealizedPair(b, change, period_end, suffix) ==
    LET ref    == <<"UNR", period_end, b>>
        cfg    == basket_config[CHOOSE s \in DOMAIN basket_config : basket_config[s].id = b]
        amount == FAbs(Round2(change))
    IN  IF IsPositive(change)
        THEN <<DebitRow(period_end, ref, suffix, cfg.fmv, amount),
               CreditRow(period_end, ref, suffix, cfg.unr, amount)>>
        ELSE <<DebitRow(period_end, ref, suffix, cfg.unr, amount),
               CreditRow(period_end, ref, suffix, cfg.fmv, amount)>>

\* a variant in which a basket below the threshold uses up a journal number
RECURSIVE EmitConsuming(_, _, _, _, _)
EmitConsuming(keys, k, st, period_end, suffix) ==
    IF k > Len(keys) THEN [rows |-> <<>>, raised |-> FALSE]
    ELSE LET b      == keys[k]
             change == st.totals.val[b]
             rest   == EmitConsuming(keys, k + 1, st, period_end, suffix + 1)
         IN  IF ~IsMaterial(change) THEN rest
             ELSE IF b \notin st.info THEN [rows |-> <<>>, raised |-> TRUE]
             ELSE [rows   |-> UnrealizedPair(b, change, period_end, suffix) \o rest.rows,
                   raised |-> rest.raised]

\* the emission loop from the basket at position k of the sorted keys on;
\* basket_info[basket_id] raises KeyError for a basket without account info
RECURSIVE Emit(_, _, _, _, _)
Emit(keys, k, st, period_end, suffix) ==
    IF k > Len(keys) THEN [rows |-> <<>>, raised |-> FALSE]
    ELSE LET b      == keys[k]
             change == st.totals.val[b]
         IN  IF ~IsMaterial(change) THEN Emit(keys, k + 1, st, period_end, suffix)
             ELSE IF b \notin st.info THEN [rows |-> <<>>, raised |-> TRUE]
             ELSE LET rest == Emit(keys, k + 1, st, period_end, suffix + 1)
                  IN  [rows   |-> UnrealizedPair(b, change, period_end, suffix) \o rest.rows,
                       raised |-> rest.raised]

\* the value of basket_totals and basket_info is kept beside the file
NoTotals == [totals |-> EmptyTotals, info |-> {}]

EmittedFile(st, period_end) ==
    IF st.totals.keys = {} THEN NoFile
    ELSE LET out == Emit(SortedStrs(st.totals.keys), 1, st, period_end, UnrBase)
         IN  [written |-> TRUE, rows |-> out.rows,
              ret     |-> IF out.raised THEN "KeyError" ELSE "UNR",
              raised  |-> out.raised]

\* a variant for which missing holdings are an error
write_unrealized_entries_strict(hs, sm, act, prior) ==
    IF IsNone(hs)
    THEN [file |-> [NoFile EXCEPT !.ret = "FileNotFoundError", !.raised = TRUE],
          locals |-> NoTotals]
    ELSE IF IsNone(sm) THEN [file |-> NoFile, locals |-> NoTotals]
    ELSE CHOOSE r \in {[file |-> EmittedFile(st, Get(sm).period_end), locals |-> st] :
                          st \in {BasketTotals(Get(hs), act, prior)}} : TRUE

write_unrealized_entries(hs, sm, act, prior) ==
    IF IsNone(hs) \/ IsNone(sm) THEN [file |-> NoFile, locals |-> NoTotals]
    ELSE CHOOSE r \in {[file |-> EmittedFile(st, Get(sm).period_end), locals |-> st] :
                          st \in {BasketTotals(Get(hs), act, prior)}} : TRUE

\* ---- _load_prior_holdings

\* a variant that takes the month before within the year of the statement
prior_period_same_year(p) == <<p[1], IF p[2] > 1 THEN p[2] - 1 ELSE 12>>

\* prior_year and prior_month, the period whose holdings file is opened
prior_period(p) ==
    <<IF p[2] > 1 THEN p[1] ELSE p[1] - 1, IF p[2] > 1 THEN p[2] - 1 ELSE 12>>

\* ---- is_validated

\* a variant that accepts a difference of 0.01
is_validated_inclusive(sm, inc, hs) ==
    IF IsNone(sm) \/ IsNone(inc) \/ IsNone(hs) THEN FALSE
    ELSE LET expected == Get(sm).change_investment_value_period
             actual   == FAdd(Income_amount(Get(inc)), Holdings_change_in_value(Get(hs)))
         IN  ~FLess(Cent, FAbs(FSub(expected, actual)))

is_validated(sm, inc, hs) ==
    IF IsNone(sm) \/ IsNone(inc) \/ IsNone(hs) THEN FALSE
    ELSE LET expected == Get(sm).change_investment_value_period
             actual   == FAdd(Income_amount(Get(inc)), Holdings_change_in_value(Get(hs)))
         IN  FLess(FAbs(FSub(expected, actual)), Cent)


\* ------------------------------------------------------------ state machine

VARIABLES
    holdings,      \* Statement.holdings: None, or the list of Holding
    income,        \* Statement.income: None, or the list of IncomeTransaction
    activity,      \* Statement.activity: None, or the list of ActivityTransaction
    summary,       \* Statement.summary: None, or the Summary
    prior,         \* the prior month's holdings file: None, or its rows
    chart,         \* books/chart_of_accounts.csv: None, or its account names
    malformed,     \* the record set whose file holds a record that does not parse, or ""
    files,         \* the entry files DIV, PUR, SAL, UNR and ENT: None, or the rows
    called,        \* the method called on the statement, "" before the call
    result,        \* what the call returned, or the exception it raised
    locals,        \* basket_totals and basket_info of write_unrealized_entries
    run,           \* the number of statements constructed on the base path
    before,        \* the entry files when the statement was constructed
    previous,      \* the inputs and the result of the run before, None in the first
    period,        \* Statement.year and Statement.month
    prior_read     \* the period of the holdings file _load_prior_holdings looked for, or None

vars ==
    <<holdings, income, activity, summary, prior, chart, malformed, files, called, result,
      locals, run, before, previous, period, prior_read>>

inputs == <<holdings, income, activity, summary, prior, chart, malformed, period>>

history == <<run, before, previous>>

EntryTypes == <<"DIV", "PUR", "SAL", "UNR">>

FileNames == {"DIV", "PUR", "SAL", "UNR", "ENT"}

\* a variant that opens the file for appending
StoredAppending(old, out) ==
    IF out.written THEN Some((IF IsNone(old) THEN <<>> ELSE Get(old)) \o out.rows) ELSE old

\* the file after a block writer ran
Stored(old, out) == IF out.written THEN Some(out.rows) ELSE old

\* ---- bounds of the inputs

MaxCents == 3

MaxDay == 2

MaxAct == 2

MaxInc == 2

MaxRuns == 2

Money == {FloatOf(c) : c \in 1..MaxCents}

\* the least and the greatest amount
EndAmounts == {FloatOf(1), FloatOf(MaxCents)}

SeqsUpTo(S, n) == UNION {[1..k -> S] : k \in 0..n}

Holding(symbol, bv, ev, cb) ==
    [symbol |-> symbol, beginning_value |-> bv, ending_value |-> ev, cost_basis |-> cb]

\* a held position of the water basket, of every kind
MainHoldings ==
    {Holding("CWCO", bv, ev, cb) :
        bv \in {None, Some(FZero), Some(FloatOf(-1))} \cup {Some(m) : m \in EndAmounts},
        ev \in EndAmounts,
        cb \in {None, Some(FZero), Some(FloatOf(2))}}

\* other positions held beside it: none, an existing position of the same
\* basket, a new position of another basket
Companions ==
    {<<>>,
     <<Holding("ALCO", Some(FloatOf(1)), FloatOf(3), Some(FloatOf(1)))>>,
     <<Holding("JEPI", None, FloatOf(3), Some(FloatOf(1)))>>}

Txn(d, action, symbol, amount, basket, cb) ==
    [settlement_date |-> d, action |-> action, symbol |-> symbol, amount |-> amount,
     basket |-> basket, cost_basis |-> cb]

\* trades of the main symbol
MainTrades ==
    {Txn(1, a, "CWCO", m, "", None) : a \in {"You Bought", "You Sold"}, m \in EndAmounts}

PriorFiles ==
    {None, Some(<<>>)} \cup
    {Some(<<[symbol |-> "CWCO", ending_value |-> m]>>) : m \in EndAmounts}

Summary(change) == [period_end |-> 31, change_investment_value_period |-> change]

SampleChart == Some(<<<<"Consolidated Water ", "(", "CWCO", ")">>, <<"Cash">>>>)

NoFiles == [f \in FileNames |-> None]

\* the period of the sample statements
SamplePeriod == <<2025, 5>>

\* a statement constructed on a base path without entry files
Fresh ==
    /\ malformed = ""
    /\ prior_read = None
    /\ files = NoFiles
    /\ called = ""
    /\ result = "None"
    /\ locals = NoTotals
    /\ run = 1
    /\ before = NoFiles
    /\ previous = None

\* statements for the mark-to-market block: one position of every kind, the
\* trades in it, and the prior month's snapshot when it was sold off
\* positions, trades and prior rows in symbols that basket_config does not
\* list, a money-market symbol among them, beside one that it lists
UnmappedHoldings ==
    {<<Holding("XYZ", Some(FloatOf(1)), FloatOf(MaxCents), Some(FloatOf(1)))>>,
     <<Holding("XYZ", None, FloatOf(MaxCents), Some(FloatOf(1)))>>,
     <<Holding("FDRXX", Some(FloatOf(1)), FloatOf(MaxCents), None)>>,
     <<Holding("CWCO", Some(FloatOf(1)), FloatOf(MaxCents), Some(FloatOf(1))),
       Holding("XYZ", Some(FloatOf(1)), FloatOf(MaxCents), Some(FloatOf(1)))>>,
     <<Holding("CWCO", Some(FloatOf(1)), FloatOf(MaxCents), Some(FloatOf(1)))>>}

UnmappedTrades ==
    {Txn(1, "You Bought", "XYZ", FloatOf(MaxCents), "", None),
     Txn(1, "You Sold", "XYZ", FloatOf(MaxCents), "", None),
     Txn(1, "You Sold", "FDRXX", FloatOf(MaxCents), "", None),
     Txn(1, "You Bought", "CWCO", FloatOf(1), "", None)}

UnmappedPrior ==
    {None, Some(<<[symbol |-> "XYZ", ending_value |-> FloatOf(1)],
                  [symbol |-> "FDRXX", ending_value |-> FloatOf(1)]>>)}

InitUnr ==
    /\ \/ /\ holdings \in {Some(<<h>> \o c) : h \in MainHoldings, c \in Companions}
          /\ prior = None
          /\ activity \in {None} \cup {Some(q) : q \in SeqsUpTo(MainTrades, MaxAct)}
       \/ /\ holdings \in {Some(c) : c \in Companions}
          /\ prior \in PriorFiles
          /\ activity \in {None} \cup {Some(q) : q \in SeqsUpTo(MainTrades, MaxAct)}
       \/ /\ holdings \in {Some(hs) : hs \in UnmappedHoldings}
          /\ prior \in UnmappedPrior
          /\ activity \in {Some(q) : q \in SeqsUpTo(UnmappedTrades, MaxAct)}
    /\ income = Some(<<>>)
    /\ summary = Some(Summary(FloatOf(2)))
    /\ chart = SampleChart
    /\ period = SamplePeriod
    /\ Fresh

IncomeTxn(d, description, amount) ==
    [settlement_date |-> d, symbol |-> "CWCO", description |-> description, amount |-> amount]

\* statements for the validator: each of summary, income and holdings
\* missing or present
InitVal ==
    /\ summary \in {None} \cup {Some(Summary(FloatOf(c))) : c \in (-1)..(MaxCents + 2)}
    /\ income \in {None} \cup
                  {Some(q) : q \in SeqsUpTo({IncomeTxn(1, d, m) :
                                 d \in {"Dividend Received", "Reinvestment"}, m \in EndAmounts},
                             MaxInc)}
    /\ holdings \in {None, Some(<<>>)} \cup
                    {Some(<<Holding("CWCO", bv, ev, cb)>>) :
                        bv \in {None, Some(FloatOf(1)), Some(FloatOf(2))},
                        ev \in EndAmounts,
                        cb \in {None, Some(FloatOf(2))}}
    /\ activity = None
    /\ prior = None
    /\ chart = SampleChart
    /\ period = SamplePeriod
    /\ Fresh

\* statements for the dividend, purchase and sale blocks
JournalIncome ==
    {Some(q) : q \in SeqsUpTo({IncomeTxn(d, ds, m) :
                   d \in 1..MaxDay, ds \in {"Dividend Received", "Reinvestment"},
                   m \in EndAmounts},
               MaxInc)}

\* the symbol and basket tag of a trade: a symbol of the chart with and without
\* tag, a symbol that is not in the chart
TradedAs == {<<"CWCO", "">>, <<"CWCO", "10001">>, <<"JEPI", "10001">>}

JournalTrades ==
    {Txn(1, "You Bought", sb[1], FloatOf(MaxCents), sb[2], None) : sb \in TradedAs} \cup
    {Txn(1, "You Bought", "FDRXX", FloatOf(1), "", None)} \cup
    {Txn(1, "You Sold", sb[1], mc[1], sb[2], mc[2]) :
        sb \in TradedAs,
        mc \in {<<FloatOf(MaxCents), Some(FloatOf(2))>>, <<FloatOf(1), Some(FloatOf(2))>>,
                <<FloatOf(MaxCents), Some(FloatOf(1))>>,
                <<FloatOf(MaxCents), None>>, <<FloatOf(MaxCents), Some(FZero)>>}}

SampleHoldings == <<Holding("ALCO", Some(FloatOf(1)), FloatOf(3), Some(FloatOf(1)))>>

\* whole statements: every record set missing, empty or filled
WholeIncome ==
    {None, Some(<<>>),
     Some(<<IncomeTxn(2, "Dividend Received", FloatOf(1)),
            IncomeTxn(1, "Dividend Received", FloatOf(MaxCents)),
            IncomeTxn(1, "Reinvestment", FloatOf(1)),
            IncomeTxn(1, "Dividend Received", FloatOf(1))>>)}

WholeActivity ==
    {None, Some(<<>>),
     Some(<<Txn(1, "You Bought", "CWCO", FloatOf(MaxCents), "10001", None),
            Txn(1, "You Sold", "JEPI", FloatOf(1), "10001", Some(FloatOf(2))),
            Txn(1, "You Bought", "JEPI", FloatOf(1), "", None),
            Txn(1, "You Bought", "FDRXX", FloatOf(1), "", None),
            Txn(1, "You Sold", "CWCO", FloatOf(MaxCents), "", Some(FloatOf(1)))>>)}

WholeHoldings ==
    {None, Some(<<>>),
     Some(<<Holding("JEPI", None, FloatOf(3), Some(FloatOf(1)))>> \o SampleHoldings),
     Some(<<Holding("JEPI", None, FloatOf(3), Some(FloatOf(1))),
            Holding("ALCO", Some(FloatOf(1)), FloatOf(1), Some(FloatOf(1)))>>)}

WholeSummary == {None, Some(Summary(FloatOf(2)))}

RecordSets == {"holdings", "income", "activity", "summary"}

\* Statement.__init__ with a file that holds a malformed record: float() or
\* date.fromisoformat() raises ValueError, load_all lets it through, and the
\* caller gets the error instead of a statement
FailedConstruction ==
    /\ malformed \in RecordSets
    /\ holdings \in IF malformed = "holdings" THEN {None} ELSE WholeHoldings
    /\ income \in IF malformed = "income" THEN {None} ELSE WholeIncome
    /\ activity \in IF malformed = "activity" THEN {None} ELSE WholeActivity
    /\ summary \in IF malformed = "summary" THEN {None} ELSE WholeSummary
    /\ files = NoFiles
    /\ called = "__init__"
    /\ result = "ValueError"
    /\ locals = NoTotals
    /\ run = 1
    /\ before = NoFiles
    /\ previous = None
    /\ prior_read = None

Init ==
    /\ \/ /\ income \in JournalIncome
          /\ activity = None
          /\ holdings = Some(SampleHoldings)
          /\ summary = Some(Summary(FloatOf(2)))
          /\ Fresh
       \/ /\ income = None
          /\ activity \in {Some(q) : q \in SeqsUpTo(JournalTrades, MaxAct)}
          /\ holdings = Some(SampleHoldings)
          /\ summary = Some(Summary(FloatOf(2)))
          /\ Fresh
       \/ /\ income \in WholeIncome
          /\ activity \in WholeActivity
          /\ holdings \in WholeHoldings
          /\ summary \in WholeSummary
          /\ Fresh
       \/ FailedConstruction
    /\ prior = None
    /\ chart = SampleChart
    /\ period = SamplePeriod

\* ---- the methods of Statement, each called once on a constructed statement

IsValidated ==
    /\ called = ""
    /\ called' = "is_validated"
    /\ result' = IF is_validated(summary, income, holdings) THEN "True" ELSE "False"
    /\ UNCHANGED <<inputs, files, locals, history, prior_read>>

WriteDividendEntries ==
    /\ called = ""
    /\ called' = "write_dividend_entries"
    /\ \E out \in {write_dividend_entries(income)} :
           /\ files' = [files EXCEPT !["DIV"] = Stored(@, out)]
           /\ result' = out.ret
    /\ UNCHANGED <<inputs, locals, history, prior_read>>

WritePurchaseEntries ==
    /\ called = ""
    /\ called' = "write_purchase_entries"
    /\ \E out \in {write_purchase_entries(activity, chart)} :
           /\ files' = [files EXCEPT !["PUR"] = Stored(@, out)]
           /\ result' = out.ret
    /\ UNCHANGED <<inputs, locals, history, prior_read>>

WriteSaleEntries ==
    /\ called = ""
    /\ called' = "write_sale_entries"
    /\ \E out \in {write_sale_entries(activity, chart)} :
           /\ files' = [files EXCEPT !["SAL"] = Stored(@, out)]
           /\ result' = out.ret
    /\ UNCHANGED <<inputs, locals, history, prior_read>>

\* write_unrealized_entries reaches _load_prior_holdings unless holdings or
\* summary is missing
PriorLooked ==
    IF IsNone(holdings) \/ IsNone(summary) THEN None ELSE Some(prior_period(period))

WriteUnrealizedEntries ==
    /\ called = ""
    /\ called' = "write_unrealized_entries"
    /\ \E out \in {write_unrealized_entries(holdings, summary, activity, prior)} :
           /\ files' = [files EXCEPT !["UNR"] = Stored(@, out.file)]
           /\ result' = out.file.ret
           /\ locals' = out.locals
    /\ prior_read' = PriorLooked
    /\ UNCHANGED <<inputs, history>>

\* the rows of the entry files that exist, in the order of entry_types
RowsOf(file) == IF IsNone(file) THEN <<>> ELSE Get(file)

Combined(fs) == Concat([k \in DOMAIN EntryTypes |-> RowsOf(fs[EntryTypes[k]])])

\* write_entries: the four block writers, then the ENT file; an exception of
\* a block writer leaves the ENT file as it was
WriteEntries ==
    /\ called = ""
    /\ called' = "write_entries"
    /\ \E div \in {write_dividend_entries(income)},
          pur \in {write_purchase_entries(activity, chart)},
          sal \in {write_sale_entries(activity, chart)},
          unr \in {write_unrealized_entries(holdings, summary, activity, prior)} :
         \E blocks \in {[files EXCEPT !["DIV"] = Stored(@, div), !["PUR"] = Stored(@, pur),
                                      !["SAL"] = Stored(@, sal),
                                      !["UNR"] = Stored(@, unr.file)]} :
           /\ files' = IF unr.file.raised THEN blocks
                       ELSE [blocks EXCEPT !["ENT"] = Some(Combined(blocks))]
           /\ result' = IF unr.file.raised THEN "KeyError" ELSE "ENT"
           /\ locals' = unr.locals
    /\ prior_read' = PriorLooked
    /\ UNCHANGED <<inputs, history>>

\* the record sets of the next run that are loaded, without a record
Emptied(o) == IF IsNone(o) THEN None ELSE Some(<<>>)

\* Statement.__init__ for the next run of the same period on the same base
\* path, after write_entries: the scrape files are as they were, or every one
\* that exists has lost its records; the entry files are what the run before
\* left
NewStatement ==
    /\ called = "write_entries"
    /\ run < MaxRuns
    /\ \/ UNCHANGED <<holdings, income, activity>>
       \/ /\ holdings' = Emptied(holdings)
          /\ income' = Emptied(income)
          /\ activity' = Emptied(activity)
    /\ run' = run + 1
    /\ before' = files
    /\ previous' = Some([inputs |-> inputs, result |-> result])
    /\ called' = ""
    /\ result' = "None"
    /\ locals' = NoTotals
    /\ prior_read' = None
    /\ UNCHANGED <<summary, prior, chart, malformed, files, period>>

Next ==
    \/ IsValidated
    \/ WriteDividendEntries
    \/ WritePurchaseEntries
    \/ WriteSaleEntries
    \/ WriteUnrealizedEntries
    \/ WriteEntries
    \/ NewStatement

Spec == Init /\ [][Next]_vars

SpecUnr == InitUnr /\ [][Next]_vars

SpecVal == InitVal /\ [][Next]_vars

\* statements of every month of some years, with and without the holdings
\* file of the month before
MaxYears == 2

Periods == {<<2023 + y, m>> : y \in 1..MaxYears, m \in 1..12}

InitPrior ==
    /\ period \in Periods
    /\ holdings \in {None, Some(<<>>), Some(SampleHoldings)}
    /\ prior \in PriorFiles
    /\ activity \in {None, Some(<<Txn(1, "You Sold", "CWCO", FloatOf(MaxCents), "", None)>>)}
    /\ income = Some(<<>>)
    /\ summary \in WholeSummary
    /\ chart = SampleChart
    /\ Fresh

SpecPrior == InitPrior /\ [][Next]_vars


\* ------------------------------------------------- the hydrators of srcx

\* srcx/hydrators holds a second implementation of the dividend and the
\* mark-to-market block: Income and Holdings build JournalEntry objects whose
\* debit and credit are floats or None, and write_journal_entries writes them.
\* A row of a file written this way carries in debit and credit None for ''
\* and Some(x) for the text of the double x.

MONEY_MARKET_SYMBOLS == {"FDRXX", "SPAXX", "FCASH"}

\* sample of SYMBOL_TO_BASKET
SYMBOL_TO_BASKET == [s \in {"ALCO", "CWCO", "JEPI"} |-> IF s = "JEPI" THEN "10003" ELSE "10001"]

\* BASKET_ACCOUNTS: basket id -> (FMV adjustment account, unrealized gain account)
BASKET_ACCOUNTS ==
    [b \in {"10001", "10003"} |->
        IF b = "10003"
        THEN [fmv |-> <<"Trading Securities - Buy-Write ETFs - FMV Adjustment">>,
              unr |-> <<"Unrealized Gain - Equity Baskets - Buy Write ETFs">>]
        ELSE [fmv |-> <<"Trading Securities - Water Basket - FMV Adjustment">>,
              unr |-> <<"Unrealized Gain - Equity Baskets - Water Investments">>]]

\* entry.debit if entry.debit else '': None and 0.0 both give the empty text
CellOf(x) == IF Truthy(x) THEN x ELSE None

\* write_journal_entries: nothing for no entries, else one row per entry
write_journal_entries(entries, path) ==
    IF IsNone(entries) THEN NoFile
    ELSE IF Get(entries) = <<>> THEN NoFile
    ELSE Written([i \in DOMAIN Get(entries) |->
                     [Get(entries)[i] EXCEPT !.debit = CellOf(@), !.credit = CellOf(@)]],
                 path)

\* Income.income: the entries described as 'Dividend Received'
Income_income(entries) == SelectSeq(entries, LAMBDA t : t.description = "Dividend Received")

\* the entries of one settlement date under one journal number
Income_group(entries, d, suffix) ==
    LET txns == SelectSeq(Income_income(entries), LAMBDA t : t.settlement_date = d)
        ref  == <<"DIV", d, "">>
    IN  [i \in DOMAIN txns |-> Row(d, ref, suffix, CashAccount, Some(txns[i].amount), None)]
        \o <<Row(d, ref, suffix, DividendIncomeAccount, None, Some(FSum(Amounts(txns))))>>

\* Income.journal_entries
Income_journal_entries(entries) ==
    LET q     == Income_income(entries)
        dates == SortedInts({q[i].settlement_date : i \in DOMAIN q})
    IN  IF q = <<>> THEN None
        ELSE Some(Concat([k \in DOMAIN dates |->
                             Income_group(entries, dates[k], DivBase + k - 1)]))

\* Holdings._load_activity: _purchases_by_symbol and _sales_by_symbol
You_Bought(act, symbol) ==
    SelectSeq(act, LAMBDA t : t.action = "You Bought" /\ t.symbol = symbol)

You_Sold(act, symbol) ==
    SelectSeq(act, LAMBDA t : t.action = "You Sold" /\ t.symbol = symbol)

purchases_by_symbol(act, symbol) == FSum(Amounts(You_Bought(act, symbol)))

sales_proceeds(act, symbol) == FSum(Amounts(You_Sold(act, symbol)))

sales_cost_basis(act, symbol) ==
    FSum([i \in DOMAIN You_Sold(act, symbol) |->
             IF IsNone(You_Sold(act, symbol)[i].cost_basis) THEN FZero
             ELSE Get(You_Sold(act, symbol)[i].cost_basis)])

\* the keys of _sales_by_symbol, in the order of their first sale
sold_symbols(act) ==
    LET q == SelectSeq(act, LAMBDA t : t.action = "You Sold")
    IN  FirstOccurrences([i \in DOMAIN q |-> q[i].symbol])

\* Holdings.holdings: the positions without the money-market symbols
Holdings_holdings(entries) ==
    SelectSeq(entries, LAMBDA h : h.symbol \notin MONEY_MARKET_SYMBOLS)

\* Holdings._calculate_change
Holdings_calculate_change(h, act) ==
    IF ~IsNone(h.beginning_value)
    THEN FSub(FSub(h.ending_value, Get(h.beginning_value)), purchases_by_symbol(act, h.symbol))
    ELSE IF ~IsNone(h.cost_basis) THEN FSub(h.ending_value, Get(h.cost_basis))
    ELSE FZero

\* the sold symbols that are no longer held and are no money-market symbol
liquidated(entries, act) ==
    SelectSeq(sold_symbols(act),
              LAMBDA sy : /\ sy \notin {entries[i].symbol : i \in DOMAIN entries}
                          /\ sy \notin MONEY_MARKET_SYMBOLS)

\* the sum of change(symbol) over the symbols of the list that have a basket
RECURSIVE ByBasket(_, _, _)
ByBasket(acc, symbols, change) ==
    IF symbols = <<>> THEN acc
    ELSE LET sy   == symbols[Len(symbols)]
             rest == ByBasket(acc, SubSeq(symbols, 1, Len(symbols) - 1), change)
         IN  IF sy \in DOMAIN SYMBOL_TO_BASKET
             THEN TotalsAdd(rest, SYMBOL_TO_BASKET[sy], change[sy])
             ELSE rest

\* Holdings._get_liquidations_by_basket: proceeds less cost basis
get_liquidations_by_basket(entries, act) ==
    LET gone   == liquidated(entries, act)
        change == [sy \in {gone[i] : i \in DOMAIN gone} |->
                      FSub(sales_proceeds(act, sy), sales_cost_basis(act, sy))]
    IN  ByBasket(EmptyTotals, gone, change)

\* Holdings._get_liquidation_period_change_by_basket: proceeds less the value
\* of the month before, for the symbols the prior file lists
get_liquidation_period_change_by_basket(entries, act, pri) ==
    LET known  == SelectSeq(liquidated(entries, act), LAMBDA sy : sy \in PriorSymbols(pri))
        change == [sy \in {known[i] : i \in DOMAIN known} |->
                      FSub(sales_proceeds(act, sy), PriorValue(pri, sy))]
    IN  ByBasket(EmptyTotals, known, change)

\* the loop over self.holdings of _get_unrealized_by_basket
RECURSIVE HeldByBasket(_, _)
HeldByBasket(hs, act) ==
    IF hs = <<>> THEN EmptyTotals
    ELSE LET h    == hs[Len(hs)]
             rest == HeldByBasket(SubSeq(hs, 1, Len(hs) - 1), act)
         IN  IF h.symbol \in DOMAIN SYMBOL_TO_BASKET
             THEN TotalsAdd(rest, SYMBOL_TO_BASKET[h.symbol], Holdings_calculate_change(h, act))
             ELSE rest

\* the second loop: adds the liquidation period change of each basket
RECURSIVE TotalsMerged(_, _, _)
TotalsMerged(acc, more, keys) ==
    IF keys = <<>> THEN acc
    ELSE TotalsAdd(TotalsMerged(acc, more, SubSeq(keys, 1, Len(keys) - 1)),
                   keys[Len(keys)], more.val[keys[Len(keys)]])

\* Holdings._get_unrealized_by_basket
get_unrealized_by_basket(entries, act, pri) ==
    LET more == get_liquidation_period_change_by_basket(entries, act, pri)
    IN  TotalsMerged(HeldByBasket(Holdings_holdings(entries), act), more,
                     SortedStrs(more.keys))

\* calendar.monthrange(year, month)[1]
last_day(p) ==
    IF p[2] \in {4, 6, 9, 11} THEN 30
    ELSE IF p[2] # 2 THEN 31
    ELSE IF p[1] % 4 = 0 /\ (p[1] % 100 # 0 \/ p[1] % 400 = 0) THEN 29 ELSE 28

\* the pair of a basket in the mark-to-market loop
MarkToMarketPair(b, change, d, suffix) ==
    LET ref == <<"UNR", d, b>>
    IN  IF ~IsNegative(change)
        THEN <<Row(d, ref, suffix, BASKET_ACCOUNTS[b].fmv, Some(Round2(change)), None),
               Row(d, ref, suffix, BASKET_ACCOUNTS[b].unr, None, Some(Round2(change)))>>
        ELSE <<Row(d, ref, suffix, BASKET_ACCOUNTS[b].unr, Some(Round2(FAbs(change))), None),
               Row(d, ref, suffix, BASKET_ACCOUNTS[b].fmv, None, Some(Round2(FAbs(change))))>>

\* the pair of a basket in the liquidation loop: both branches debit the FMV
\* account and credit the unrealized account
LiquidationPair(b, change, d, suffix) ==
    LET ref == <<"LIQ", d, b>>
    IN  IF ~IsNegative(change)
        THEN <<Row(d, ref, suffix, BASKET_ACCOUNTS[b].fmv, Some(Round2(change)), None),
               Row(d, ref, suffix, BASKET_ACCOUNTS[b].unr, None, Some(Round2(change)))>>
        ELSE <<Row(d, ref, suffix, BASKET_ACCOUNTS[b].fmv, Some(Round2(FAbs(change))), None),
               Row(d, ref, suffix, BASKET_ACCOUNTS[b].unr, None, Some(Round2(FAbs(change))))>>

\* one loop of journal_entries over the sorted baskets from position k on:
\* the rows, and the journal number after them
RECURSIVE PairsFrom(_, _, _, _, _, _)
PairsFrom(keys, k, totals, d, suffix, loop) ==
    IF k > Len(keys) THEN [rows |-> <<>>, next |-> suffix]
    ELSE IF ~IsMaterial(totals.val[keys[k]])
    THEN PairsFrom(keys, k + 1, totals, d, suffix, loop)
    ELSE LET rest == PairsFrom(keys, k + 1, totals, d, suffix + 1, loop)
             pair == IF loop = "UNR"
                     THEN MarkToMarketPair(keys[k], totals.val[keys[k]], d, suffix)
                     ELSE LiquidationPair(keys[k], totals.val[keys[k]], d, suffix)
         IN  [rows |-> pair \o rest.rows, next |-> rest.next]

\* Holdings.journal_entries
Holdings_journal_entries(entries, act, pri, p) ==
    LET unrealized   == get_unrealized_by_basket(entries, act, pri)
        liquidations == get_liquidations_by_basket(entries, act)
        mtm == PairsFrom(SortedStrs(unrealized.keys), 1, unrealized, last_day(p), UnrBase,
                         "UNR")
        liq == PairsFrom(SortedStrs(liquidations.keys), 1, liquidations, last_day(p),
                         mtm.next, "LIQ")
    IN  IF unrealized.keys = {} /\ liquidations.keys = {} THEN None
        ELSE IF mtm.rows \o liq.rows = <<>> THEN None
        ELSE Some(mtm.rows \o liq.rows)

\* the activity file as Holdings._load_activity reads it: no file, no activity
LoadedActivity(act) == IF IsNone(act) THEN <<>> ELSE Get(act)

\* ---- the state machine of the hydrators

\* Income.write
Income_write ==
    /\ called = ""
    /\ ~IsNone(income)
    /\ called' = "Income.write"
    /\ \E out \in {write_journal_entries(Income_journal_entries(Get(income)), "DIV")} :
           /\ files' = [files EXCEPT !["DIV"] = Stored(@, out)]
           /\ result' = out.ret
    /\ UNCHANGED <<inputs, locals, history, prior_read>>

\* Holdings.write; the two dictionaries of journal_entries are kept
Holdings_write ==
    /\ called = ""
    /\ ~IsNone(holdings)
    /\ called' = "Holdings.write"
    /\ \E out \in {write_journal_entries(
                       Holdings_journal_entries(Get(holdings), LoadedActivity(activity),
                                                prior, period), "UNR")} :
           /\ files' = [files EXCEPT !["UNR"] = Stored(@, out)]
           /\ result' = out.ret
    /\ locals' = [unrealized   |-> get_unrealized_by_basket(Get(holdings),
                                        LoadedActivity(activity), prior),
                  liquidations |-> get_liquidations_by_basket(Get(holdings),
                                        LoadedActivity(activity))]
    /\ UNCHANGED <<inputs, history, prior_read>>

\* Holdings._calculate_change on one of the positions; the position and the
\* value returned are kept
Holdings_calculate_change_call ==
    /\ called = ""
    /\ ~IsNone(holdings)
    /\ \E i \in DOMAIN Holdings_holdings(Get(holdings)) :
           locals' = [holding |-> Holdings_holdings(Get(holdings))[i],
                      change  |-> Holdings_calculate_change(
                                      Holdings_holdings(Get(holdings))[i],
                                      LoadedActivity(activity))]
    /\ called' = "_calculate_change"
    /\ result' = "float"
    /\ UNCHANGED <<inputs, files, history, prior_read>>

\* dividends of zero, one and more cents
HydratorIncome ==
    {IncomeTxn(d, ds, m) : d \in 1..MaxDay, ds \in {"Dividend Received", "Reinvestment"},
                           m \in {FZero} \cup EndAmounts}

\* a position with and without beginning value, in each basket, and a
\* money-market position
HydratorHoldings ==
    {<<>>,
     <<Holding("CWCO", Some(FloatOf(MaxCents)), FloatOf(1), Some(FloatOf(1)))>>,
     <<Holding("CWCO", None, FloatOf(MaxCents), Some(FloatOf(1)))>>,
     <<Holding("JEPI", Some(FloatOf(MaxCents)), FloatOf(1), Some(FloatOf(1)))>>,
     <<Holding("JEPI", Some(FloatOf(1)), FloatOf(MaxCents), Some(FloatOf(1))),
       Holding("FDRXX", Some(FloatOf(1)), FloatOf(1), None)>>}

\* a purchase, and sales at a loss, at a gain and without cost basis
HydratorTrades ==
    {Txn(1, "You Bought", "CWCO", FloatOf(1), "", None),
     Txn(1, "You Sold", "CWCO", FloatOf(1), "", Some(FloatOf(MaxCents))),
     Txn(1, "You Sold", "CWCO", FloatOf(MaxCents), "", Some(FloatOf(1))),
     Txn(1, "You Sold", "CWCO", FloatOf(1), "", None)}

\* Income and Holdings constructed for the sample period
InitX ==
    /\ \/ /\ income \in {Some(q) : q \in SeqsUpTo(HydratorIncome, MaxInc)}
          /\ holdings = Some(SampleHoldings)
          /\ activity = None
          /\ prior = None
       \/ /\ income = Some(<<>>)
          /\ holdings \in {Some(hs) : hs \in HydratorHoldings}
          /\ activity \in {None} \cup {Some(q) : q \in SeqsUpTo(HydratorTrades, MaxAct)}
          /\ prior \in {None, Some(<<[symbol |-> "CWCO", ending_value |-> FloatOf(1)]>>)}
    /\ summary = None
    /\ chart = SampleChart
    /\ period = SamplePeriod
    /\ Fresh

NextX ==
    \/ Income_write
    \/ Holdings_write
    \/ Holdings_calculate_change_call

SpecX == InitX /\ [][NextX]_vars


\* --------------------------------------------------------------- properties

\* the sum of a sequence of whole numbers
RECURSIVE SumOf(_)
SumOf(q) == IF q = <<>> THEN 0 ELSE q[1] + SumOf(Tail(q))

\* the statement's lists, empty when the input is not loaded
HeldList == IF IsNone(holdings) THEN <<>> ELSE Get(holdings)

TradeList == IF IsNone(activity) THEN <<>> ELSE Get(activity)

IncomeList == IF IsNone(income) THEN <<>> ELSE Get(income)

AllLoaded == ~IsNone(summary) /\ ~IsNone(income) /\ ~IsNone(holdings)

\* write_unrealized_entries ran past its guard on holdings and summary
AfterUnrealized ==
    called = "write_unrealized_entries" /\ ~IsNone(holdings) /\ ~IsNone(summary)

BasketOf(symbol) == basket_config[symbol].id

\* the held positions of the symbols of basket b
HeldIn(b) ==
    SelectSeq(HeldList, LAMBDA h : InBasketConfig(h.symbol) /\ BasketOf(h.symbol) = b)

IsHeld(symbol) == \E i \in DOMAIN HeldList : HeldList[i].symbol = symbol

HasBeginning(h) == ~IsNone(h.beginning_value) /\ IsPositive(Get(h.beginning_value))

IsNewPosition(h) ==
    IsNone(h.beginning_value) /\ ~IsNone(h.cost_basis) /\ IsPositive(Get(h.cost_basis))

HeldWithBeginning(symbol) ==
    \E i \in DOMAIN HeldList : HeldList[i].symbol = symbol /\ HasBeginning(HeldList[i])

\* a trade in cents: a purchase counts negative, the proceeds of a sale positive
SignedCents(t) == IF IsBought(t) THEN -t.amount.c ELSE IF IsSold(t) THEN t.amount.c ELSE 0

\* the trades of the period in the symbols of basket b held with a positive
\* beginning value, in cents
TradeCents(b) ==
    SumOf([i \in DOMAIN TradeList |->
              IF /\ InBasketConfig(TradeList[i].symbol)
                 /\ BasketOf(TradeList[i].symbol) = b
                 /\ HeldWithBeginning(TradeList[i].symbol)
              THEN SignedCents(TradeList[i]) ELSE 0])

\* a symbol sold in the period and not held at its end
SoldOff(symbol) ==
    /\ ~IsHeld(symbol)
    /\ \E i \in DOMAIN TradeList : IsSold(TradeList[i]) /\ TradeList[i].symbol = symbol

NoLiquidation(b) == \A s \in DOMAIN basket_config : BasketOf(s) = b => ~SoldOff(s)

\* the net change of basket b when the emission starts, to the nearest cent
BasketCents(b) == locals.totals.val[b].c

\* the rows that write_unrealized_entries wrote: a call that returns None
\* leaves the file of an earlier run as it was
UnrRows == IF result = "None" THEN <<>> ELSE RowsOf(files["UNR"])

RowsFor(b) == SelectSeq(UnrRows, LAMBDA r : r.ref[3] = b)

\* the cents of one column over the rows carrying one journal number
ColumnCents(rows, suffix, column) ==
    SumOf([i \in DOMAIN rows |->
              IF rows[i].suffix = suffix /\ ~IsNone(rows[i][column])
              THEN Get(rows[i][column]) ELSE 0])

Balanced(rows) ==
    \A i \in DOMAIN rows :
        ColumnCents(rows, rows[i].suffix, "debit") = ColumnCents(rows, rows[i].suffix, "credit")

\* C1: in every file written by a block writer (dividends, purchases, sales,
\* unrealized), the lines of each journal number have equal Debit and Credit
\* sums; every amount of the inputs is a whole number of cents.
C1_EveryJournalBalances ==
    \A f \in {"DIV", "PUR", "SAL", "UNR"} : ~IsNone(files[f]) => Balanced(Get(files[f]))

\* the income of the period without the reinvestments, in cents
IncomeCents ==
    SumOf([i \in DOMAIN IncomeList |->
              IF is_reinvestment(IncomeList[i]) THEN 0 ELSE IncomeList[i].amount.c])

\* C2: is_validated returns True exactly when summary, income and holdings
\* are loaded and |expected - (income without reinvestments + holdings value
\* change)| < 0.01, the difference taken on the program's doubles; it returns
\* False in every other case and raises nothing.  In whole cents: amounts that
\* agree validate, amounts two cents or more apart do not.
C2_ValidatedIffWithinCent ==
    called = "is_validated" =>
        IF ~AllLoaded THEN result = "False"
        ELSE LET expected == Get(summary).change_investment_value_period
                 actual   == FAdd(Income_amount(Get(income)),
                                  Holdings_change_in_value(Get(holdings)))
                 gap      == Abs(expected.c - (IncomeCents
                                 + SumOf([i \in DOMAIN HeldList |->
                                             Holding_change_in_value(HeldList[i]).c])))
             IN  /\ result = IF FLess(FAbs(FSub(expected, actual)), Cent)
                             THEN "True" ELSE "False"
                 /\ gap = 0 => result = "True"
                 /\ gap >= 2 => result = "False"

C2_Witness ==
    /\ called = "is_validated"
    /\ result = "True"
    /\ AllLoaded
    /\ \E i \in DOMAIN IncomeList : is_reinvestment(IncomeList[i])
    /\ \E i \in DOMAIN IncomeList : ~is_reinvestment(IncomeList[i])
    /\ HeldList # <<>>

\* the value change of the holdings under the mark-to-market policy, in cents:
\* the change of every position, less the purchases and plus the sale proceeds
\* of the positions held with a positive beginning value
PolicyCents ==
    SumOf([i \in DOMAIN HeldList |-> Holding_change_in_value(HeldList[i]).c])
    + SumOf([i \in DOMAIN TradeList |->
                IF \E j \in DOMAIN HeldList :
                       /\ HeldList[j].symbol = TradeList[i].symbol
                       /\ HasBeginning(HeldList[j])
                       /\ ~is_money_market(HeldList[j])
                THEN SignedCents(TradeList[i]) ELSE 0])

\* C3: the holdings value change that is_validated adds to the income follows
\* the mark-to-market policy: for a position held with beginning_value > 0 it
\* is ending - beginning less the period's purchases of the symbol plus the
\* period's sale proceeds.  So a statement whose summary agrees with that sum
\* validates, and one two cents or more away from it does not.
C3_ValidatedUnderMarkToMarketPolicy ==
    (called = "is_validated" /\ AllLoaded) =>
        LET expected == Get(summary).change_investment_value_period
            gap      == Abs(expected.c - (IncomeCents + PolicyCents))
        IN  /\ gap = 0 => result = "True"
            /\ gap >= 2 => result = "False"

\* C4 as stated: a basket whose held symbols all have beginning_value > 0 has
\* the net change sum(ending - beginning) - purchases + sale proceeds of those
\* symbols.
C4_EveryBeginningAdjusted ==
    AfterUnrealized =>
        \A b \in BasketIds :
            (/\ HeldIn(b) # <<>>
             /\ NoLiquidation(b)
             /\ \A i \in DOMAIN HeldIn(b) : HasBeginning(HeldIn(b)[i]))
            => BasketCents(b) =
                   SumOf([i \in DOMAIN HeldIn(b) |->
                             HeldIn(b)[i].ending_value.c - Get(HeldIn(b)[i].beginning_value).c])
                   + TradeCents(b)

\* C4: a basket-mapped symbol held at period end with beginning_value > 0 and
\* a cost basis (present, not zero) contributes ending - beginning - purchases
\* + sale proceeds to the net change of its basket; the purchases and sales of
\* a symbol not held with a positive beginning_value adjust nothing.
C4_HeldBeginningAdjusted ==
    AfterUnrealized =>
        \A b \in BasketIds :
            (/\ NoLiquidation(b)
             /\ \A i \in DOMAIN HeldIn(b) :
                    ~(is_money_market(HeldIn(b)[i]) /\ HasBeginning(HeldIn(b)[i])))
            => BasketCents(b) =
                   SumOf([i \in DOMAIN HeldIn(b) |->
                             IF HasBeginning(HeldIn(b)[i])
                             THEN HeldIn(b)[i].ending_value.c
                                  - Get(HeldIn(b)[i].beginning_value).c
                             ELSE Holding_change_in_value(HeldIn(b)[i]).c])
                   + TradeCents(b)

C4_Witness ==
    /\ AfterUnrealized
    /\ HasBeginning(HeldList[1]) /\ ~is_money_market(HeldList[1])
    /\ \E i \in DOMAIN TradeList :
           IsBought(TradeList[i]) /\ TradeList[i].symbol = HeldList[1].symbol
    /\ \E i \in DOMAIN TradeList :
           IsSold(TradeList[i]) /\ TradeList[i].symbol = HeldList[1].symbol
    /\ BasketOf(HeldList[1].symbol) \in locals.totals.keys
    /\ TradeCents(BasketOf(HeldList[1].symbol)) # 0

\* C5: a holding with the money-market indicator (cost_basis absent or zero)
\* has change_in_value 0 whatever its beginning and ending values, and adds
\* nothing to the net change of any basket: a basket whose held symbols all
\* carry the indicator has net change 0.
C5_MoneyMarketAddsNothing ==
    /\ \A i \in DOMAIN HeldList :
           is_money_market(HeldList[i]) => IsZero(Holding_change_in_value(HeldList[i]))
    /\ AfterUnrealized =>
           \A b \in BasketIds :
               (/\ HeldIn(b) # <<>>
                /\ NoLiquidation(b)
                /\ \A i \in DOMAIN HeldIn(b) : is_money_market(HeldIn(b)[i]))
               => IsZero(locals.totals.val[b])

\* C6: a new position (beginning_value absent, cost_basis C > 0) changes by
\* ending_value - C, and no purchase or sale of the period adjusts it: a basket
\* whose held symbols are all new positions has net change sum(ending - C),
\* and exactly the double ending - C when it holds one symbol.
C6_NewPositionUnadjusted ==
    AfterUnrealized =>
        \A b \in BasketIds :
            (/\ HeldIn(b) # <<>>
             /\ NoLiquidation(b)
             /\ \A i \in DOMAIN HeldIn(b) : IsNewPosition(HeldIn(b)[i]))
            => /\ b \in locals.totals.keys
               /\ BasketCents(b) =
                      SumOf([i \in DOMAIN HeldIn(b) |->
                                HeldIn(b)[i].ending_value.c - Get(HeldIn(b)[i].cost_basis).c])
               /\ Len(HeldIn(b)) = 1 =>
                      locals.totals.val[b] =
                          FSub(HeldIn(b)[1].ending_value, Get(HeldIn(b)[1].cost_basis))

C6_Witness ==
    /\ AfterUnrealized
    /\ IsNewPosition(HeldList[1])
    /\ Len(HeldIn(BasketOf(HeldList[1].symbol))) = 1
    /\ \E i \in DOMAIN TradeList :
           IsBought(TradeList[i]) /\ TradeList[i].symbol = HeldList[1].symbol
    /\ BasketCents(BasketOf(HeldList[1].symbol)) # 0

\* a position with a cost basis whose beginning_value is present and not positive
HasNonPositiveBeginning(h) ==
    ~is_money_market(h) /\ ~IsNone(h.beginning_value) /\ ~IsPositive(Get(h.beginning_value))

SoldOffIn(b) == SortedStrs({s \in DOMAIN basket_config : BasketOf(s) = b /\ SoldOff(s)})

KnownSoldOffIn(b) == SelectSeq(SoldOffIn(b), LAMBDA s : s \in PriorSymbols(prior))

ProceedsCents(symbol) ==
    SumOf([i \in DOMAIN TradeList |->
              IF IsSold(TradeList[i]) /\ TradeList[i].symbol = symbol
              THEN TradeList[i].amount.c ELSE 0])

\* C8: a basket-mapped symbol sold in the period and absent from the holdings
\* at period end adds (its total sale proceeds - its ending value in the prior
\* month's holdings) to the net change of its basket when the prior value is
\* available, and nothing when it is not: the basket then gets no total from
\* the sale at all.
C8_LiquidationAgainstPrior ==
    AfterUnrealized =>
        \A b \in BasketIds :
            (/\ SoldOffIn(b) # <<>>
             /\ \A i \in DOMAIN HeldIn(b) :
                    ~(is_money_market(HeldIn(b)[i]) /\ HasBeginning(HeldIn(b)[i])))
            => /\ BasketCents(b) =
                      SumOf([i \in DOMAIN HeldIn(b) |->
                                Holding_change_in_value(HeldIn(b)[i]).c])
                      + TradeCents(b)
                      + SumOf([k \in DOMAIN KnownSoldOffIn(b) |->
                                  ProceedsCents(KnownSoldOffIn(b)[k])
                                  - PriorValue(prior, KnownSoldOffIn(b)[k]).c])
               /\ b \in locals.totals.keys <=>
                      \/ KnownSoldOffIn(b) # <<>>
                      \/ \E i \in DOMAIN HeldIn(b) : ~is_money_market(HeldIn(b)[i])

C8_Witness ==
    /\ AfterUnrealized
    /\ \E b \in BasketIds :
           /\ KnownSoldOffIn(b) # <<>>
           /\ HeldIn(b) = <<>>
           /\ b \in locals.totals.keys
           /\ BasketCents(b) # 0

\* C9: a basket whose net change is below 0.01 in absolute value has no line
\* in the unrealized block; a basket whose net change is 0.01 or more in
\* absolute value has exactly one pair there: a debit line and a credit line
\* of the same amount, which is at least 0.01.
C9_MaterialityDecidesThePair ==
    AfterUnrealized =>
        \A b \in BasketIds :
            IF b \in locals.totals.keys /\ IsMaterial(locals.totals.val[b])
            THEN /\ Len(RowsFor(b)) = 2
                 /\ ~IsNone(RowsFor(b)[1].debit) /\ IsNone(RowsFor(b)[1].credit)
                 /\ IsNone(RowsFor(b)[2].debit) /\ ~IsNone(RowsFor(b)[2].credit)
                 /\ Get(RowsFor(b)[1].debit) = Get(RowsFor(b)[2].credit)
                 /\ Get(RowsFor(b)[1].debit) >= 1
            ELSE RowsFor(b) = <<>>

\* the accounts of basket b
ConfigOf(b) == basket_config[CHOOSE s \in DOMAIN basket_config : BasketOf(s) = b]

\* C10: the lines of the unrealized block come in pairs, a debit then a credit
\* of one basket; for a positive net change the debit is on the basket's FMV
\* adjustment account and the credit on its unrealized-gain account, for a
\* negative net change the other way round; both lines carry
\* abs(round(change, 2)) and the date of the summary's period end.
C10_PairDirectionAndAmount ==
    AfterUnrealized =>
        /\ Len(UnrRows) % 2 = 0
        /\ \A k \in 1..(Len(UnrRows) \div 2) :
               LET d      == UnrRows[2 * k - 1]
                   c      == UnrRows[2 * k]
                   b      == d.ref[3]
                   change == locals.totals.val[b]
                   gain   == IsPositive(change)
               IN  /\ c.ref = d.ref /\ c.suffix = d.suffix
                   /\ d.ref = <<"UNR", Get(summary).period_end, b>>
                   /\ d.date = Get(summary).period_end
                   /\ c.date = Get(summary).period_end
                   /\ gain \/ IsNegative(change)
                   /\ d.account = IF gain THEN ConfigOf(b).fmv ELSE ConfigOf(b).unr
                   /\ c.account = IF gain THEN ConfigOf(b).unr ELSE ConfigOf(b).fmv
                   /\ d.debit = Some(Abs(change.c)) /\ d.credit = None
                   /\ c.credit = Some(Abs(change.c)) /\ c.debit = None

C10_Witness ==
    /\ AfterUnrealized
    /\ Len(UnrRows) = 4
    /\ \E b \in BasketIds : IsNegative(locals.totals.val[b]) /\ RowsFor(b) # <<>>
    /\ \E b \in BasketIds : IsPositive(locals.totals.val[b]) /\ RowsFor(b) # <<>>

\* ---- journal numbers

\* the journal number a block starts from
BaseOf(f) ==
    CASE f = "DIV" -> DivBase [] f = "PUR" -> PurBase [] f = "SAL" -> SalBase
      [] f = "UNR" -> UnrBase

\* the grouping key of a row, read from its reference number: the date, then
\* the basket tag or basket id
RowKey(r) == <<r.ref[2], StrRank(r.ref[3])>>

KeyLess(a, b) == a[1] < b[1] \/ (a[1] = b[1] /\ a[2] < b[2])

\* the rows are numbered from base on: a row continues the group before it,
\* with its key and its number, or starts the group of a greater key with the
\* next number
Numbered(rows, base) ==
    /\ rows # <<>> => rows[1].suffix = base
    /\ \A i \in 1..(Len(rows) - 1) :
           \/ rows[i + 1].suffix = rows[i].suffix /\ RowKey(rows[i + 1]) = RowKey(rows[i])
           \/ /\ rows[i + 1].suffix = rows[i].suffix + 1
              /\ KeyLess(RowKey(rows[i]), RowKey(rows[i + 1]))

\* C11: in each block file the journal suffixes are base, base+1, ...,
\* base+n-1 (10001 dividends, 20001 purchases, 30001 sales, 40001 unrealized)
\* for the n groups emitted, in ascending order of the grouping key, all lines
\* of a group sharing one suffix; a suppressed group uses up no suffix, and
\* every block starts from its own base whatever the other blocks hold.
C11_SuffixesCountTheGroups ==
    \A f \in {"DIV", "PUR", "SAL", "UNR"} : Numbered(RowsOf(files[f]), BaseOf(f))

\* write_entries wrote the four blocks, two groups in each of the first three,
\* and in the unrealized block the first basket was suppressed and the second
\* got the base number
C11_Witness ==
    /\ called = "write_entries"
    /\ \A f \in {"DIV", "PUR", "SAL"} :
           \E i \in DOMAIN RowsOf(files[f]) : RowsOf(files[f])[i].suffix = BaseOf(f) + 1
    /\ \E b \in locals.totals.keys :
           /\ ~IsMaterial(locals.totals.val[b])
           /\ \E i \in DOMAIN RowsOf(files["UNR"]) :
                  /\ StrRank(b) < StrRank(RowsOf(files["UNR"])[i].ref[3])
                  /\ RowsOf(files["UNR"])[i].suffix = UnrBase

\* ---- the blocks, line by line

\* what a line says: its date, account, Debit and Credit
Line(r) == <<r.date, r.account, r.debit, r.credit>>

Lines(rows) == [i \in DOMAIN rows |-> Line(rows[i])]

\* the rows of block f that the call wrote
WrittenRows(f) == IF result = "None" THEN <<>> ELSE RowsOf(files[f])

\* the cash dividends of the period: the income that is not a reinvestment
CashDividends == SelectSeq(IncomeList, LAMBDA t : ~is_reinvestment(t))

DividendDates == SortedInts({CashDividends[i].settlement_date : i \in DOMAIN CashDividends})

\* the lines of one date: a cash debit per dividend, then the income credit
DividendLines(d) ==
    LET paid == SelectSeq(CashDividends, LAMBDA t : t.settlement_date = d)
    IN  [i \in DOMAIN paid |-> <<d, CashAccount, Some(paid[i].amount.c), None>>]
        \o <<<<d, DividendIncomeAccount, None,
               Some(SumOf([i \in DOMAIN paid |-> paid[i].amount.c]))>>>>

\* C12: the dividends block holds, for each settlement date with a
\* non-reinvestment income transaction and in ascending date order, one cash
\* debit line per such transaction for its amount, then one income credit line
\* for the total of the date; a transaction whose description contains
\* "Reinvestment" gives no line and enters no total, and without any cash
\* dividend nothing is written.
C12_DividendLinesPerDate ==
    called = "write_dividend_entries" =>
        /\ result = IF CashDividends = <<>> THEN "None" ELSE "DIV"
        /\ Lines(WrittenRows("DIV")) =
               Concat([k \in DOMAIN DividendDates |-> DividendLines(DividendDates[k])])
        /\ \A f \in FileNames \ {"DIV"} : files[f] = before[f]

\* two dates, one of them with two cash dividends and a reinvestment
C12_Witness ==
    /\ called = "write_dividend_entries"
    /\ result = "DIV"
    /\ Len(DividendDates) = 2
    /\ \E i \in DOMAIN IncomeList : is_reinvestment(IncomeList[i])
    /\ Len(WrittenRows("DIV")) = 5

\* the purchases of the period that are journalised: 'Bought', and not a
\* money-market symbol
Purchases ==
    SelectSeq(TradeList, LAMBDA t : IsBought(t) /\ t.symbol \notin money_market_symbols)

PurchaseKeys == SortedInts({KeyOf(Purchases[i]) : i \in DOMAIN Purchases})

\* the names of the chart that end in "(symbol)"
ChartNames(symbol) ==
    IF IsNone(chart) THEN {}
    ELSE {Get(chart)[i] : i \in {j \in DOMAIN Get(chart) :
                                   /\ Len(Get(chart)[j]) >= 3
                                   /\ SubSeq(Get(chart)[j], Len(Get(chart)[j]) - 2,
                                             Len(Get(chart)[j])) = <<"(", symbol, ")">>}}

\* the ledger account of a security: its name in the chart, else the symbol
LedgerAccount(symbol) ==
    IF ChartNames(symbol) = {} THEN <<symbol>> ELSE CHOOSE n \in ChartNames(symbol) : TRUE

\* the lines of one (date, basket tag) group: a debit per purchase, then the
\* cash credit
PurchaseLines(key) ==
    LET bought == SelectSeq(Purchases, LAMBDA t : KeyOf(t) = key)
        d      == bought[1].settlement_date
    IN  [i \in DOMAIN bought |->
            <<d, LedgerAccount(bought[i].symbol), Some(bought[i].amount.c), None>>]
        \o <<<<d, CashAccount, None, Some(SumOf([i \in DOMAIN bought |-> bought[i].amount.c]))>>>>

\* C13: the purchases block holds, for each (settlement_date, basket tag)
\* group of 'Bought' transactions on symbols that are not money-market
\* symbols, an absent tag grouping as the empty tag, one debit line per
\* transaction for its amount to the symbol's name in the chart of accounts,
\* or to the raw symbol when the chart does not name it, then one cash credit
\* line for the group total; a money-market purchase gives no line.
C13_PurchaseLinesPerGroup ==
    called = "write_purchase_entries" =>
        /\ result = IF Purchases = <<>> THEN "None" ELSE "PUR"
        /\ Lines(WrittenRows("PUR")) =
               Concat([k \in DOMAIN PurchaseKeys |-> PurchaseLines(PurchaseKeys[k])])
        /\ \A f \in FileNames \ {"PUR"} : files[f] = before[f]

\* purchases of a symbol the chart names, of one it does not, and of a
\* money-market symbol, in two groups
C13_Witness ==
    /\ called = "write_purchase_entries"
    /\ result = "PUR"
    /\ Len(PurchaseKeys) = 2
    /\ \E i \in DOMAIN Purchases : ChartNames(Purchases[i].symbol) # {}
    /\ \E i \in DOMAIN Purchases : ChartNames(Purchases[i].symbol) = {}
    /\ \E i \in DOMAIN TradeList :
           IsBought(TradeList[i]) /\ TradeList[i].symbol \in money_market_symbols
    /\ Len(WrittenRows("PUR")) = 4

\* the sales of the period that are journalised: 'Sold', and not a
\* money-market symbol
Sales == SelectSeq(TradeList, LAMBDA t : IsSold(t) /\ t.symbol \notin money_market_symbols)

SaleKeys == SortedInts({KeyOf(Sales[i]) : i \in DOMAIN Sales})

\* the sales of one symbol in one (date, basket tag) group
SalesOf(key, symbol) == SelectSeq(Sales, LAMBDA t : KeyOf(t) = key /\ t.symbol = symbol)

SymbolsSold(key) ==
    SortedStrs({Sales[i].symbol : i \in {j \in DOMAIN Sales : KeyOf(Sales[j]) = key}})

\* the cost basis a sale is booked with: its own, or its proceeds when it has none
BookedCost(t) == IF Truthy(t.cost_basis) THEN Get(t.cost_basis) ELSE t.amount

\* gain_loss of a symbol in a group, as the double the program computes, and
\* in whole cents
GainLoss(key, symbol) ==
    FSub(FSum(Amounts(SalesOf(key, symbol))),
         FSum([i \in DOMAIN SalesOf(key, symbol) |-> BookedCost(SalesOf(key, symbol)[i])]))

GainCents(key, symbol) ==
    SumOf([i \in DOMAIN SalesOf(key, symbol) |->
              SalesOf(key, symbol)[i].amount.c - BookedCost(SalesOf(key, symbol)[i]).c])

\* the lines of a group on its realized gain/loss account, each as the column
\* it fills
RealizedSides(key) ==
    LET t    == SalesOf(key, SymbolsSold(key)[1])[1]
        rows == SelectSeq(WrittenRows("SAL"),
                          LAMBDA r : /\ RowKey(r) = <<t.settlement_date, StrRank(t.basket)>>
                                     /\ r.account = basket_income_accounts(t.basket))
    IN  [i \in DOMAIN rows |->
            IF ~IsNone(rows[i].debit) /\ IsNone(rows[i].credit) THEN "debit"
            ELSE IF IsNone(rows[i].debit) /\ ~IsNone(rows[i].credit) THEN "credit"
            ELSE "neither"]

ExpectedSides(key) ==
    Concat([k \in DOMAIN SymbolsSold(key) |->
               LET g == GainLoss(key, SymbolsSold(key)[k])
               IN  IF ~IsMaterial(g) THEN <<>>
                   ELSE IF IsPositive(g) THEN <<"credit">> ELSE <<"debit">>])

\* C14: in the sales block, for each symbol of a (date, basket tag) group with
\* gain_loss = its proceeds less its cost basis, taken on the program's
\* doubles, there is a realized line iff |gain_loss| >= 0.01; the line is a
\* credit to the income account for a gain and a debit for a loss, never the
\* reverse.  In whole cents: a gain of two cents or more is credited, a loss
\* of two cents or more is debited, a difference of zero gives no line.
C14_GainsCreditedLossesDebited ==
    (called = "write_sale_entries" /\ result # "None") =>
        \A k \in DOMAIN SaleKeys :
            /\ RealizedSides(SaleKeys[k]) = ExpectedSides(SaleKeys[k])
            /\ \A j \in DOMAIN SymbolsSold(SaleKeys[k]) :
                   LET g == GainLoss(SaleKeys[k], SymbolsSold(SaleKeys[k])[j])
                       c == GainCents(SaleKeys[k], SymbolsSold(SaleKeys[k])[j])
                   IN  /\ c >= 2 => IsMaterial(g) /\ IsPositive(g)
                       /\ c <= -2 => IsMaterial(g) /\ IsNegative(g)
                       /\ c = 0 => ~IsMaterial(g)

\* a group that sold one symbol at a gain and another at a loss
C14_Witness ==
    /\ called = "write_sale_entries"
    /\ result = "SAL"
    /\ \E k \in DOMAIN SaleKeys :
           /\ Len(SymbolsSold(SaleKeys[k])) = 2
           /\ RealizedSides(SaleKeys[k]) = <<"credit", "debit">>
           /\ GainCents(SaleKeys[k], SymbolsSold(SaleKeys[k])[1]) >= 2

\* ---- the combined stream and the runs

\* block f has something to journalise in this run
Qualifies(f) ==
    CASE f = "DIV" -> CashDividends # <<>>
      [] f = "PUR" -> Purchases # <<>>
      [] f = "SAL" -> Sales # <<>>
      [] f = "UNR" -> ~IsNone(holdings) /\ ~IsNone(summary) /\ locals.totals.keys # {}

\* the lines that block f produced in this run
Produced(f) == IF Qualifies(f) THEN RowsOf(files[f]) ELSE <<>>

\* the lines of block f in the combined stream
CombinedOf(f) == SelectSeq(RowsOf(files["ENT"]), LAMBDA r : r.ref[1] = f)

\* C15: the combined stream that write_entries writes is the concatenation,
\* in the order dividends, purchases, sales, unrealized, of the lines that each
\* block produced, in the block's own order and with their journal numbers;
\* no line is added, dropped, reordered or renumbered.
C15_CombinedIsTheBlocksInOrder ==
    (called = "write_entries" /\ result = "ENT") =>
        RowsOf(files["ENT"]) =
            Produced("DIV") \o Produced("PUR") \o Produced("SAL") \o Produced("UNR")

\* C16: after a run in which a block has nothing to journalise there is no
\* output for that block, and the combined stream the run wrote has no line
\* of it, whatever an earlier run for the same period and base path produced.
C16_EmptyBlockLeavesNothing ==
    called = "write_entries" =>
        \A f \in {"DIV", "PUR", "SAL", "UNR"} :
            ~Qualifies(f) =>
                /\ IsNone(files[f])
                /\ result = "ENT" => CombinedOf(f) = <<>>

\* this run has the inputs of the run before it
SameInputsAsBefore == ~IsNone(previous) /\ Get(previous).inputs = inputs

\* C17: running write_entries a second time on identical inputs leaves the
\* output set as the first run left it: the same block files and the same
\* combined stream, with the same lines, journal numbers, order and amounts,
\* and the same result.
C17_SecondRunChangesNothing ==
    (called = "write_entries" /\ SameInputsAsBefore) =>
        /\ files = before
        /\ result = Get(previous).result

\* a second run on the inputs of the first, with lines of all four blocks
C17_Witness ==
    /\ called = "write_entries"
    /\ run = 2
    /\ SameInputsAsBefore
    /\ result = "ENT"
    /\ \A f \in {"DIV", "PUR", "SAL", "UNR"} : Qualifies(f) /\ CombinedOf(f) # <<>>

\* ---- missing and malformed inputs

\* the dividend lines expected from the income of this run
ExpectedDividendLines ==
    Concat([k \in DOMAIN DividendDates |-> DividendLines(DividendDates[k])])

HasMaterialBasket ==
    ~IsNone(holdings) /\
    \E st \in {BasketTotals(Get(holdings), activity, prior)} :
        \E b \in st.totals.keys : IsMaterial(st.totals.val[b])

\* C19: a missing summary disables the validator only.  With holdings, income
\* and activity loaded and the summary absent, is_validated returns False and
\* the dividend, purchase, sale and unrealized blocks each still give their
\* entries.
C19_MissingSummaryDisablesOnlyTheValidator ==
    /\ (called = "is_validated" /\ IsNone(summary)) => result = "False"
    /\ (/\ called = "write_entries"
        /\ IsNone(summary) /\ ~IsNone(holdings) /\ ~IsNone(income) /\ ~IsNone(activity))
       => /\ result = "ENT"
          /\ CashDividends # <<>> => CombinedOf("DIV") # <<>>
          /\ Purchases # <<>> => CombinedOf("PUR") # <<>>
          /\ Sales # <<>> => CombinedOf("SAL") # <<>>
          /\ HasMaterialBasket => CombinedOf("UNR") # <<>>

\* the construction raised: the caller has an error and no statement, and no
\* method is ever called in this run
ConstructionFailed == called = "__init__" /\ malformed # ""

\* C20: a malformed record in one record set is surfaced to the caller as an
\* error and stops the block that depends on that record set; it is fatal for
\* that record set only: the blocks that depend on the other, well-formed
\* record sets are still generated.
C20_MalformedStopsItsOwnBlockOnly ==
    ConstructionFailed =>
        /\ result = "ValueError"
        /\ malformed = "income" => IsNone(files["DIV"])
        /\ malformed = "activity" => IsNone(files["PUR"]) /\ IsNone(files["SAL"])
        /\ malformed = "holdings" => IsNone(files["UNR"])
        /\ (malformed # "income" /\ CashDividends # <<>>) => ~IsNone(files["DIV"])
        /\ (malformed # "activity" /\ Purchases # <<>>) => ~IsNone(files["PUR"])
        /\ (malformed # "activity" /\ Sales # <<>>) => ~IsNone(files["SAL"])

\* ---- whole blocks

\* the journal numbers used in a sequence of rows
SuffixesOf(rows) == {rows[i].suffix : i \in DOMAIN rows}

\* the baskets whose net change is to be journalised
MaterialBaskets == {b \in locals.totals.keys : IsMaterial(locals.totals.val[b])}

\* the file of block f holds every journal of the block
Complete(f) ==
    /\ ~IsNone(files[f])
    /\ Cardinality(SuffixesOf(RowsOf(files[f]))) =
           CASE f = "DIV" -> Len(DividendDates)
             [] f = "PUR" -> Len(PurchaseKeys)
             [] f = "SAL" -> Len(SaleKeys)
             [] f = "UNR" -> Cardinality(MaterialBaskets)

\* C21: each block is all-or-nothing.  After a call of a block writer, or of
\* write_entries, the file of a block is as it was before the call or holds
\* the complete entry set of the block; no call leaves a header alone or only
\* the journals written before a failure.
C21_BlocksAreAllOrNothing ==
    called \in {"write_dividend_entries", "write_purchase_entries", "write_sale_entries",
                "write_unrealized_entries", "write_entries"} =>
        \A f \in {"DIV", "PUR", "SAL", "UNR"} : files[f] = before[f] \/ Complete(f)

\* ---- symbols without a basket

\* a record set without the records of the symbols that basket_config does not list
WithoutUnmapped(o) ==
    IF IsNone(o) THEN None ELSE Some(SelectSeq(Get(o), LAMBDA r : InBasketConfig(r.symbol)))

HasUnmapped(o) == ~IsNone(o) /\ \E i \in DOMAIN Get(o) : ~InBasketConfig(Get(o)[i].symbol)

\* C23: a symbol that basket_config does not list, a money-market symbol
\* included, adds nothing to the net change of any basket, neither as a
\* holding nor through its purchases and sales nor as a liquidation, and
\* gives no mark-to-market line: the basket totals, the lines written and the
\* result are those of the same statement without the records of such symbols,
\* and every line is of a basket of the table.
C23_UnmappedSymbolsCountForNothing ==
    AfterUnrealized =>
        \E clean \in {write_unrealized_entries(WithoutUnmapped(holdings), summary,
                                                WithoutUnmapped(activity),
                                                WithoutUnmapped(prior))} :
            /\ locals.totals = clean.locals.totals
            /\ result = clean.file.ret
            /\ UnrRows = clean.file.rows
            /\ \A i \in DOMAIN UnrRows : UnrRows[i].ref[3] \in BasketIds

\* an unlisted symbol held with a beginning value and a change of its own,
\* traded in the period and listed in the prior snapshot, beside a basket that
\* got its pair
C23_Witness ==
    /\ AfterUnrealized
    /\ \E i \in DOMAIN HeldList :
           /\ ~InBasketConfig(HeldList[i].symbol)
           /\ HasBeginning(HeldList[i])
           /\ ~IsZero(Holding_change_in_value(HeldList[i]))
    /\ HasUnmapped(activity)
    /\ HasUnmapped(prior)
    /\ Len(UnrRows) = 2

\* ---- the accounts of the baskets

\* C27: in write_unrealized_entries, when the emission starts every basket id
\* with an accumulated total has its account info in basket_info, whatever the
\* holdings and the activity, a basket whose only held symbol has
\* beginning_value > 0, no cost basis and a trade in the period included; the
\* emission loop never fails on a missing basket.
C27_EveryTotalHasItsAccounts ==
    (called \in {"write_unrealized_entries", "write_entries"}
        /\ ~IsNone(holdings) /\ ~IsNone(summary)) =>
        /\ locals.totals.keys \subseteq locals.info
        /\ result # "KeyError"

\* ---- sales without a cost basis

\* the sale carries no usable cost basis: none, or zero
HasNoBasis(t) == ~Truthy(t.cost_basis)

\* the rows of the sales block that carry the journal number of group k
SaleGroupRows(k) == SelectSeq(WrittenRows("SAL"), LAMBDA r : r.suffix = SalBase + k - 1)

\* the cents of the cost bases the sales of a symbol carry themselves, and of
\* the proceeds of its sales that carry none
OwnCostCents(key, symbol) ==
    SumOf([i \in DOMAIN SalesOf(key, symbol) |->
              IF HasNoBasis(SalesOf(key, symbol)[i]) THEN 0
              ELSE Get(SalesOf(key, symbol)[i].cost_basis).c])

NoBasisProceedsCents(key, symbol) ==
    SumOf([i \in DOMAIN SalesOf(key, symbol) |->
              IF HasNoBasis(SalesOf(key, symbol)[i])
              THEN SalesOf(key, symbol)[i].amount.c ELSE 0])

\* the difference between proceeds and cost basis of the sales of a symbol
\* that carry a cost basis, in cents
OwnGainCents(key, symbol) ==
    SumOf([i \in DOMAIN SalesOf(key, symbol) |->
              IF HasNoBasis(SalesOf(key, symbol)[i]) THEN 0
              ELSE SalesOf(key, symbol)[i].amount.c
                   - Get(SalesOf(key, symbol)[i].cost_basis).c])

\* C28: in the sales block a sale whose cost_basis is absent or zero is
\* booked at a cost equal to its proceeds.  For every symbol of every group the
\* credit on the ledger account of the security is the cost bases of the sales
\* that carry one plus the full proceeds of those that carry none; a realized
\* line, when there is one, carries the difference of the sales that carry a
\* cost basis only, so a symbol sold without any cost basis has no realized
\* line; and the journal of the group balances whenever the sales that do
\* carry a cost basis leave no difference of exactly one cent, in particular
\* when no sale of the group carries one.
C28_NoCostBasisBooksAtProceeds ==
    (called = "write_sale_entries" /\ result # "None") =>
        \A k \in DOMAIN SaleKeys :
            LET key  == SaleKeys[k]
                rows == SaleGroupRows(k)
                syms == SymbolsSold(key)
                t    == SalesOf(key, syms[1])[1]
                real == SelectSeq(rows, LAMBDA r : r.account = basket_income_accounts(t.basket))
                own  == {j \in DOMAIN syms : OwnGainCents(key, syms[j]) # 0}
            IN  /\ \A j \in DOMAIN syms :
                       LET cr == SelectSeq(rows, LAMBDA r : /\ r.account = LedgerAccount(syms[j])
                                                           /\ ~IsNone(r.credit))
                       IN  SumOf([i \in DOMAIN cr |-> Get(cr[i].credit)])
                             = SumOf([i \in DOMAIN syms |->
                                   IF LedgerAccount(syms[i]) = LedgerAccount(syms[j])
                                   THEN OwnCostCents(key, syms[i])
                                        + NoBasisProceedsCents(key, syms[i])
                                   ELSE 0])
                /\ Len(real) <= Cardinality(own)
                /\ \A i \in DOMAIN real :
                       \E j \in own :
                           IF OwnGainCents(key, syms[j]) > 0
                           THEN real[i].credit = Some(OwnGainCents(key, syms[j]))
                                /\ IsNone(real[i].debit)
                           ELSE real[i].debit = Some(-OwnGainCents(key, syms[j]))
                                /\ IsNone(real[i].credit)
                /\ (\A j \in DOMAIN syms : Abs(OwnGainCents(key, syms[j])) # 1) =>
                       ColumnCents(rows, SalBase + k - 1, "debit")
                           = ColumnCents(rows, SalBase + k - 1, "credit")

\* a group whose sales carry no cost basis, one absent and one zero: the cash
\* debit and the credit on the ledger account only
C28_Witness ==
    /\ called = "write_sale_entries"
    /\ result = "SAL"
    /\ \E k \in DOMAIN SaleKeys :
           /\ \E i, j \in DOMAIN Sales :
                  /\ KeyOf(Sales[i]) = SaleKeys[k] /\ KeyOf(Sales[j]) = SaleKeys[k]
                  /\ IsNone(Sales[i].cost_basis)
                  /\ Sales[j].cost_basis = Some(FZero)
           /\ Len(SaleGroupRows(k)) = 2
           /\ ColumnCents(SaleGroupRows(k), SalBase + k - 1, "credit") = 2 * MaxCents

\* ---- the dividends block and the validator's income term

\* the cents of the debit lines of the rows
DebitCents(rows) ==
    SumOf([i \in DOMAIN rows |-> IF IsNone(rows[i].debit) THEN 0 ELSE Get(rows[i].debit)])

\* C29: after write_dividend_entries on a statement whose income is loaded, the
\* debit lines of the block it wrote add up, in cents, to Income.amount, the
\* income term of is_validated; both are the total of exactly the income
\* transactions that are not reinvestments.
C29_DividendDebitsEqualIncomeAmount ==
    (called = "write_dividend_entries" /\ ~IsNone(income)) =>
        /\ DebitCents(WrittenRows("DIV")) = Income_amount(Get(income)).c
        /\ DebitCents(WrittenRows("DIV"))
               = SumOf([i \in DOMAIN CashDividends |-> CashDividends[i].amount.c])

\* a cash dividend and a reinvestment of different amounts: the block debits
\* the dividend only
C29_Witness ==
    /\ called = "write_dividend_entries"
    /\ result = "DIV"
    /\ \E i, j \in DOMAIN IncomeList :
           /\ is_reinvestment(IncomeList[i])
           /\ ~is_reinvestment(IncomeList[j])
           /\ IncomeList[i].amount.c = MaxCents
           /\ IncomeList[j].amount.c = 1
    /\ DebitCents(WrittenRows("DIV")) = 1

\* ---- the baskets and the validator's holdings term

\* the net changes of all baskets, in cents
AllBasketCents ==
    SumOf([k \in DOMAIN SortedStrs(BasketIds) |-> BasketCents(SortedStrs(BasketIds)[k])])

\* every position that is not a money-market position has a basket
EveryHoldingMapped ==
    \A i \in DOMAIN HeldList :
        is_money_market(HeldList[i]) \/ InBasketConfig(HeldList[i].symbol)

\* C30: after write_unrealized_entries on a statement without activity in the
\* period (none loaded, or an empty list) whose positions are all money-market
\* positions or basket-mapped, the net changes of the baskets add up, in
\* cents, to Holdings.change_in_value, the holdings term of is_validated.
C30_BasketsAddUpToChangeInValue ==
    (AfterUnrealized /\ TradeList = <<>> /\ EveryHoldingMapped) =>
        AllBasketCents = Holdings_change_in_value(HeldList).c

\* positions in two baskets, each with a change of two cents, and no activity
C30_Witness ==
    /\ AfterUnrealized
    /\ TradeList = <<>>
    /\ EveryHoldingMapped
    /\ Cardinality(locals.totals.keys) = 2
    /\ \A b \in locals.totals.keys : BasketCents(b) = 2
    /\ AllBasketCents = 4

\* ---- the snapshot of the month before

\* the calendar month before a period
MonthBefore(p) == IF p[2] \in 2..12 THEN <<p[1], p[2] - 1>> ELSE <<p[1] - 1, 12>>

\* C26: whenever write_unrealized_entries, alone or within write_entries, gets
\* as far as liquidation detection, the holdings file it looks for is that of
\* the calendar month before the statement's: (year, month - 1) for the months
\* 2 to 12 and (year - 1, 12) for month 1; it looks for no other, and no step
\* of the program changes the content of that file.
C26_PriorSnapshotIsTheMonthBefore ==
    /\ [](/\ period[2] \in 1..12
          /\ ~IsNone(prior_read) => prior_read = Some(MonthBefore(period))
          /\ (called \in {"write_unrealized_entries", "write_entries"}
                 /\ ~IsNone(holdings) /\ ~IsNone(summary)) => ~IsNone(prior_read))
    /\ [][prior' = prior]_vars

\* a January statement that sold a position off: the snapshot of December of
\* the year before gives the beginning value
C26_Witness ==
    /\ called = "write_unrealized_entries"
    /\ period[2] = 1
    /\ prior_read = Some(<<period[1] - 1, 12>>)
    /\ ~IsNone(prior) /\ Len(Get(prior)) = 1
    /\ "10001" \in locals.totals.keys
    /\ BasketCents("10001") = MaxCents - 1

\* ---- the hydrators of srcx

\* the rows of every export file that exists
AllRows == Concat([k \in 1..5 |->
               RowsOf(files[(EntryTypes \o <<"ENT">>)[k]])])

\* C22: every journal line of every export file has exactly one of Debit and
\* Credit populated, never both and never neither, whatever the amounts of
\* the transactions, zero included.
C22_ExactlyOneSidePopulated ==
    \A i \in DOMAIN AllRows : IsNone(AllRows[i].debit) # IsNone(AllRows[i].credit)

\* the rows of the 40001 block with the reference of one loop and one basket
PairOf(loop, b) == SelectSeq(RowsOf(files["UNR"]), LAMBDA r : r.ref[1] = loop /\ r.ref[3] = b)

\* the pair debits the unrealized-gain account and credits the FMV account
IsLossPair(rows, b) ==
    /\ Len(rows) = 2
    /\ rows[1].account = BASKET_ACCOUNTS[b].unr /\ ~IsNone(rows[1].debit)
    /\ IsNone(rows[1].credit)
    /\ rows[2].account = BASKET_ACCOUNTS[b].fmv /\ ~IsNone(rows[2].credit)
    /\ IsNone(rows[2].debit)

\* C24: after Holdings.write (srcx), the pair of every basket with a negative
\* change of a cent or more, in the mark-to-market loop and in the liquidation
\* loop alike, debits the unrealized-gain account of the basket and credits
\* its FMV-adjustment account.
C24_LossPairsAreReversed ==
    (called = "Holdings.write" /\ result = "UNR") =>
        \A b \in DOMAIN BASKET_ACCOUNTS :
            /\ (b \in locals.unrealized.keys /\ locals.unrealized.val[b].c <= -1) =>
                   IsLossPair(PairOf("UNR", b), b)
            /\ (b \in locals.liquidations.keys /\ locals.liquidations.val[b].c <= -1) =>
                   IsLossPair(PairOf("LIQ", b), b)

\* the cents bought and sold of a symbol in the period
BoughtCents(symbol) ==
    SumOf([i \in DOMAIN TradeList |->
              IF TradeList[i].action = "You Bought" /\ TradeList[i].symbol = symbol
              THEN TradeList[i].amount.c ELSE 0])

SoldCents(symbol) ==
    SumOf([i \in DOMAIN TradeList |->
              IF TradeList[i].action = "You Sold" /\ TradeList[i].symbol = symbol
              THEN TradeList[i].amount.c ELSE 0])

\* C25: Holdings._calculate_change (srcx) returns, for a held position with a
\* beginning_value, ending_value - beginning_value - the purchases of the
\* symbol in the period + the sale proceeds of the symbol in the period, in
\* cents.
C25_SalesAreAddedBack ==
    (called = "_calculate_change" /\ ~IsNone(locals.holding.beginning_value)) =>
        locals.change.c = locals.holding.ending_value.c
                            - Get(locals.holding.beginning_value).c
                            - BoughtCents(locals.holding.symbol)
                            + SoldCents(locals.holding.symbol)

====
